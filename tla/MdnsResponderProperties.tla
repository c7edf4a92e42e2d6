----------------------- MODULE MdnsResponderProperties -----------------------
(* What a packet of the mDNS responder says, and that it can be read.      *)
EXTENDS MdnsResponder

Labels == labels \cup UNION {ToSet(Chain(l)) : l \in
              labels \cup {InstanceAt(k) : k \in DOMAIN added}}

\* The types of the variables.
TypeOK ==
    /\ added \in Seq(Instance) /\ Len(added) <= MaxServices
    /\ Host \in labels
    /\ readOffset \in 1..Len(incoming) + 1 /\ left \in 0..Len(asked.questions)
    /\ answer \cup additional \subseteq ToSet(records)
    /\ DOMAIN writeOffset \subseteq Labels
    /\ Range(writeOffset) \cup DOMAIN image \cup {offset} \subseteq 0..BUFFER_SIZE
    /\ {e.record : e \in ToSet(entries)} \subseteq ToSet(records)
    /\ pc \in {"setup", "idle", "match", "answers", "additionals", "reset"}

----------------------------------------------------------------------------
Type(r) == CASE r[1] \in {"hostNSEC", "NSEC"} -> "NSEC"
             [] r[1] \in {"PTR", "subPTR"}    -> "PTR"
             [] OTHER                         -> r[1]

\* The records of the labels the map knows, superseded ones left out.
Published == {r \in ToSet(records) : Owner(r) \in labels}

\* An instance is asked for in its own case.
OfName(q) ==
    {r \in Published :
        /\ q.name = [k \in DOMAIN Chain(Owner(r)) |-> TextOf(Chain(Owner(r))[k])]
        /\ q.sameCase \/ Owner(r)[1] # "instance"}

\* The answer to a question: the records of the name and type, or the record
\* that says which types the name has.
AnswerTo(q) ==
    LET right == {r \in OfName(q) : Type(r) # "NSEC" /\ q.type \in {Type(r), "ANY"}}
    IN  IF right # {} THEN right ELSE {r \in OfName(q) : Type(r) = "NSEC"}

(* While a packet is written, its answers are those to the questions its   *)
(* sender meant, all of them, whatever came in earlier packets: the reader *)
(* finds each name and the type behind it though pointers lead back and    *)
(* forth, matched() and the flags of records, which live on from packet to *)
(* packet, do the rest.                                                    *)
AnswersAsked ==
    pc \in {"answers", "additionals"} =>
        answer = UNION {AnswerTo(q) : q \in ToSet(asked.questions)}

\* Every byte went into the buffer, which drops what is written past its end.
Fits == offset < BUFFER_SIZE

(* When all is written, no record was written twice, and if it all fitted  *)
(* the packet has every record of the answer, with a PTR the SRV, TXT and  *)
(* A records that its reader asks for next, and with an SRV or TXT the     *)
(* other, and the A record.                                                *)
PacketComplete ==
    LET there == {e.record : e \in ToSet(entries)}
    IN  pc = "reset" =>
            /\ \A m, n \in DOMAIN entries :
                  entries[m].record = entries[n].record => m = n
            /\ Fits => /\ answer \subseteq there
                       /\ \A r \in there :
                             Type(r) \in {"PTR", "SRV", "TXT"} =>
                                 {SRV(r[2]), TXT(r[2]), HostA} \subseteq there

----------------------------------------------------------------------------
\* Where a reader goes who finds a pointer.
Jump(a) == IF a \in DOMAIN image /\ image[a][1] = "pointer" THEN image[a][2] ELSE a

(* A reader who starts at a finds this name: its first label there or      *)
(* where a pointer leads, each further label behind the one before or      *)
(* where a pointer there leads.                                            *)
Reads(a, name) ==
    LET place[k \in DOMAIN name] ==
            Jump(IF k = 1 THEN a
                 ELSE place[k - 1] + NameSize[name[k - 1][1]] + 1)
    IN  \A k \in DOMAIN name :
            place[k] \in DOMAIN image /\ image[place[k]] = name[k]

\* addService was given each instance once.
Distinct == IsInjective(added)

(* A reader that follows the labels and pointers in the packet finds the   *)
(* name of each record, and the name in each record's data, although the   *)
(* offsets the pointers are made of are kept in labels shared by names and *)
(* by packets.  (Not if an instance is added twice: the label it had first *)
(* is out of the map and keeps its offset.)                                *)
NamesDecode ==
    Fits /\ Distinct =>
        \A e \in ToSet(entries) :
            /\ Reads(e.name, Chain(Owner(e.record)))
            /\ Type(e.record) = "PTR" =>
                   Reads(e.data, Chain(InstanceAt(e.record[2])))
            /\ Type(e.record) = "SRV" => Reads(e.data + 6, Chain(Host))
            /\ Type(e.record) = "NSEC" => Reads(e.data, Chain(Owner(e.record)))

(* The length a record declares is that of the data that follow, so that a *)
(* reader finds the next record; it is computed before the name in it is   *)
(* written, from the labels that have been written by then.                *)
LengthsTrue ==
    Fits => \A e \in ToSet(entries) : e.length = e.end - e.data

=============================================================================
