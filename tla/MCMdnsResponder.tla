-------------------------- MODULE MCMdnsResponder --------------------------
(* The two services that setup() has commented out, and questions.         *)
EXTENDS MdnsResponderProperties

MCServiceOf == [i \in Instance |-> "http"]
MCSubsOf == [i \in Instance |-> IF i = "Core 1" THEN <<"light">> ELSE <<>>]

\* "", "local", "core-1", "_http", "_tcp", "Core alt", "_sub", "_light".
MCNameSize == [root |-> 0, local |-> 5, host |-> 6, service |-> 5,
               protocol |-> 4, instance |-> 8, _sub |-> 4, sub |-> 6]

Http  == <<Service("http"), Protocol("http"), LOCAL_NAME, ROOT>>
Core(i) == <<<<"instance", i>>>> \o Http

Names == {<<Host, LOCAL_NAME, ROOT>>, Http,
          <<Sub("light", "http"), SubMark("light", "http")>> \o Http}
            \cup {Core(i) : i \in Instance}

\* The host's label in another domain, and the name of a service no one has.
Strangers == {<<Host, Protocol("http"), LOCAL_NAME, ROOT>>,
              <<<<"unknown">>>> \o Tail(Http)}

Question == [name : Names, type : {"A", "PTR", "SRV", "TXT", "ANY", "AAAA"},
             sameCase : {TRUE}]
                \cup [name : Names \cup Strangers, type : {"ANY"}, sameCase : {FALSE}]

(***************************************************************************)
(* How a sender writes questions: each name up to the longest suffix that  *)
(* it wrote before, for which it writes a pointer if it compresses.        *)
(***************************************************************************)
Put(w, q, compress) ==
    LET name  == CellsOf(q)
        From(k) == SubSeq(name, k, Len(name))
        known == {k \in DOMAIN name : From(k) \in DOMAIN w.at}
        new   == IF known = {} THEN Len(name) ELSE Min(known) - 1
        pointer == IF known = {} THEN <<>>
                   ELSE <<[kind |-> "pointer", to |-> w.at[From(new + 1)]]>>
        cells == SubSeq(name, 1, new) \o pointer
                    \o <<[kind |-> "type", type |-> q.type]>>
    IN  [cells |-> w.cells \o cells,
         names |-> w.names
                      \o [k \in 1..(Len(cells) - 1) |-> From(k)]
                      \o <<<<Last(cells)>>>>,
         starts |-> Append(w.starts, Len(w.cells) + Len(cells) + 1),
         at |-> IF ~compress THEN w.at
                ELSE [s \in {From(k) : k \in 1..Min({new, Len(name) - 1})} |->
                        Len(w.cells) + 1 + Len(name) - Len(s)] @@ w.at]

Packet(questions, compress) ==
    LET w == FoldLeft(LAMBDA so_far, q : Put(so_far, q, compress),
                      [cells |-> <<>>, names |-> <<>>, starts |-> <<1>>, at |-> <<>>],
                      questions)
    IN  [questions |-> questions, qdcount |-> Len(questions),
         cells |-> w.cells, names |-> w.names, starts |-> w.starts]

\* Every name once.
ToAll == {q \in Question : q.sameCase /\ q.type = "ANY"}

\* Three questions make a pointer that leads to a pointer.
MCPackets ==
    {Packet(<<>>, FALSE)} \cup {Packet(<<p>>, FALSE) : p \in Question}
        \cup {Packet(<<p, q>>, TRUE) : p \in Question, q \in Question}
        \cup {Packet(<<p, q>>, FALSE) : p \in ToAll, q \in ToAll}
        \cup {Packet(<<p, q, o>>, TRUE) : p \in ToAll, q \in ToAll, o \in ToAll}
=============================================================================
