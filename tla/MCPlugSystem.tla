---------------------------- MODULE MCPlugSystem ----------------------------
(* A client and a cloud that make the same calls, both some out of range.  *)
EXTENDS PlugSystemProperties

\* Off at once (command 2); on (1) after 66 s, which wraps to 464 ms; off after
\* 54016 s, which are refused; a keepalive (0) and an auto-on time (6) of 0;
\* half an auto-off command (7), two of which make a whole one, of 7 minutes.
\* The codes are numbers here: Server's constants cannot be given in terms of
\* Server's own definitions.
ClientCommands ==
    {<<2, 0, 0>>, <<1, 66, 0>>, <<2, 0, 211>>, <<0, 6, 0>>, <<7>>}

\* A number out of strtol's range sets errno, so that a later 0 is refused.
CloudArguments == {Numeral(0), Overlong}

AllTexts == [digits : {TRUE}, value : (0..65535) \cup {LONG_MAX}, erange : BOOLEAN]

NothingPast == [c \in 11..14 |-> 3]
=============================================================================
