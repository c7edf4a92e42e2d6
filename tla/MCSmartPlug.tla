---------------------------- MODULE MCSmartPlug ----------------------------
(* Arguments of the cloud functions, named so that a cfg can choose them.  *)
EXTENDS SmartPlugProperties

\* Both threads: cloud calls, and commands of a TCP client.
BothThreads == {"app", "timer"}
CloudOnly   == {"app"}

\* At once or never, and 67, which is 1 minute where BYTE is 2 or 3, and a
\* delay of 1464 ms: 67000 do not fit a uint16_t.
PlainTexts == {Numeral(0), Numeral(67)}

\* Also a text out of strtol's range, which is refused as a delay and, like
\* every later 0, leaves errno set.
OddTexts == PlainTexts \cup {Overlong}

\* 66 s are 66000 ms; 8192 s wrap to 0 ms.
LongDelays == {Numeral(0), Numeral(30), Numeral(66), Numeral(8192)}
=============================================================================
