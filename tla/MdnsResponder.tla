--------------------------- MODULE MdnsResponder ---------------------------
(***************************************************************************)
(* The mDNS responder of MDNS.cpp, Label.cpp, Record.cpp and Buffer.cpp:   *)
(* it reads the questions of a packet, collects the records they ask for,  *)
(* writes those with compressed names into the same buffer, and forgets    *)
(* all of it before the next packet.  processQueries runs on the timer     *)
(* thread and shares nothing; its steps are there to be looked at one by   *)
(* one.                                                                    *)
(*                                                                         *)
(* setup() sets the host name, in Init, and has its two calls of           *)
(* addService commented out; the model makes any such calls before begin().*)
(***************************************************************************)
EXTENDS Integers, Sequences, SequencesExt

CONSTANTS
    Instance,       \* names of instances
    ServiceOf,      \* the service, with its protocol, of each
    SubsOf,         \* the sequence of subservices each is offered under
    MaxServices,    \* bound on the calls of addService
    NameSize,       \* kind of label -> length of its text
    TxtSize,        \* bytes of a TXT record's entries
    BUFFER_SIZE,    \* 512
    Packets         \* what arrives: the questions and how they are written

ASSUME SubsAssumption == \A i \in Instance : SubsOf[i] \in Seq(Range(SubsOf[i]))

\* setHostname and addService refuse longer texts, but for a subservice's,
\* whose length is a byte; "_" counts.
MAX_TEXT == 62

HEADER_SIZE == 12

ASSUME SizeAssumption ==
    /\ NameSize.root = 0 /\ NameSize.local = 5 /\ NameSize._sub = 4
    /\ NameSize.host \in 0..MAX_TEXT /\ NameSize.instance \in 0..MAX_TEXT
    /\ NameSize.service \in 0..MAX_TEXT /\ NameSize.protocol \in 0..MAX_TEXT
    /\ NameSize.sub \in 0..254
    /\ TxtSize \in Nat /\ MaxServices \in Nat
    /\ BUFFER_SIZE \in Nat /\ BUFFER_SIZE >= HEADER_SIZE

(***************************************************************************)
(* A label is known by the object it is: Instance(k) is the one the k-th   *)
(* call of addService made.  ROOT ends every name.                         *)
(***************************************************************************)
ROOT  == <<"root">>
LOCAL_NAME == <<"local">>
Host  == <<"host">>
Service(s)    == <<"service", s>>
Protocol(s)   == <<"protocol", s>>
InstanceAt(k) == <<"instance", k>>
SubMark(x, s) == <<"_sub", x, s>>
Sub(x, s)     == <<"sub", x, s>>

VARIABLES
    added,          \* the instances of the calls of addService
    labels,         \* the labels in the map
    records,        \* the vector of records
    incoming,       \* the packet's questions, as they are in the buffer
    readOffset,     \* of the buffer while they are read
    left,           \* questions not read yet, by the header's qdcount
    asked,          \* history: the packet, with what its sender meant
    answer,         \* the records with answerRecord
    additional,     \* the records with additionalRecord
    writeOffset,    \* label -> its offset, where that is valid
    image,          \* offset -> the label or pointer that starts there
    offset,         \* of the buffer
    entries,        \* history: the records written, where and how long
    pc              \* "setup", "idle", "match", "answers", "additionals", "reset"

vars == <<added, labels, records, incoming, readOffset, left, asked, answer,
          additional, writeOffset, image, offset, entries, pc>>

setup   == <<added, labels, records>>
query   == <<incoming, readOffset, left, asked>>
written == <<writeOffset, image, offset, entries>>

ServiceAt(k) == ServiceOf[added[k]]

\* The labels from l on, as nextLabel links them.
Chain(l) ==
    CASE l = Host         -> <<l, LOCAL_NAME, ROOT>>
      [] l[1] = "service" -> <<l, Protocol(l[2]), LOCAL_NAME, ROOT>>
      [] l[1] = "instance" ->
           LET s == ServiceAt(l[2])
           IN  <<l, Service(s), Protocol(s), LOCAL_NAME, ROOT>>
      [] l[1] = "sub" ->
           <<l, SubMark(l[2], l[3]), Service(l[3]), Protocol(l[3]), LOCAL_NAME, ROOT>>

(***************************************************************************)
(* Records, with the label each is given.                                  *)
(***************************************************************************)
HostA    == <<"A">>
HostNSEC == <<"hostNSEC">>
PTR(k)   == <<"PTR", k>>
SRV(k)   == <<"SRV", k>>
TXT(k)   == <<"TXT", k>>
NSEC(k)  == <<"NSEC", k>>
SubPTR(k, x) == <<"subPTR", k, x>>

\* What the k-th call of addService appends.
RecordsOf(k, i) == <<PTR(k), SRV(k), TXT(k), NSEC(k)>>
                       \o [n \in DOMAIN SubsOf[i] |-> SubPTR(k, SubsOf[i][n])]

Owner(r) ==
    CASE r \in {HostA, HostNSEC} -> Host
      [] r[1] = "PTR"            -> Service(ServiceAt(r[2]))
      [] r[1] = "subPTR"         -> Sub(r[3], ServiceAt(r[2]))
      [] OTHER                   -> InstanceAt(r[2])

Nothing == [l \in {} |-> 0]

NoPacket == [cells |-> <<>>, names |-> <<>>, questions |-> <<>>, qdcount |-> 0,
             starts |-> <<1>>]

Init ==
    /\ added = <<>> /\ labels = {Host} /\ records = <<HostA, HostNSEC>>
    /\ incoming = <<>> /\ readOffset = 1 /\ left = 0 /\ asked = NoPacket
    /\ answer = {} /\ additional = {}
    /\ writeOffset = Nothing /\ image = Nothing
    /\ offset = 0 /\ entries = <<>>
    /\ pc = "setup"

----------------------------------------------------------------------------
\* The text of a label's name: instances by their names.
TextOf(l) == IF l[1] = "instance" THEN <<"instance", added[l[2]]>> ELSE l

\* A label of the same name is replaced in the map, unless it is a service's.
AddService(i) ==
    LET k == Len(added) + 1 IN
    /\ pc = "setup" /\ Len(added) < MaxServices
    /\ added' = Append(added, i)
    /\ labels' = {l \in labels : TextOf(l) # <<"instance", i>>}
                    \cup {Service(ServiceOf[i]), InstanceAt(k)}
                    \cup {Sub(x, ServiceOf[i]) : x \in Range(SubsOf[i])}
    /\ records' = records \o RecordsOf(k, i)
    /\ UNCHANGED <<query, answer, additional, written, pc>>

begin ==
    /\ pc = "setup" /\ pc' = "idle"
    /\ UNCHANGED <<setup, query, answer, additional, written>>

\* A packet has a whole header of 12 bytes here, which readHeader fills in; a
\* response has no questions for this host, whatever its qdcount.
Receive(packet) ==
    /\ pc = "idle"
    /\ incoming' = packet.cells /\ readOffset' = 1
    /\ left' = packet.qdcount /\ asked' = packet
    /\ pc' = "match"
    /\ UNCHANGED <<setup, answer, additional, written>>

----------------------------------------------------------------------------
(***************************************************************************)
(* Reading.  The buffer is seen as cells: a label of a name (its size and  *)
(* its text, in the case of the host's labels or in another), the root, a  *)
(* pointer to an earlier cell, or the type and class that end a question.  *)
(***************************************************************************)
Cell(q, l) == IF l = ROOT THEN [kind |-> "root"]
              ELSE [kind |-> "label", text |-> l, sameCase |-> q.sameCase]

CellsOf(q) == [k \in DOMAIN q.name |-> Cell(q, q.name[k])]

(* What a sender writes (RFC 1035, 4.1): names[a] is the name from cell a  *)
(* on, a pointer stands for what follows an earlier cell, and the n-th     *)
(* question lies between starts[n] and starts[n + 1]: labels up to a root  *)
(* or a pointer, and the type.                                             *)
WellWritten(p) ==
    /\ p.cells \in Seq(Range(p.cells)) /\ p.questions \in Seq(Range(p.questions))
    /\ p.qdcount = Len(p.questions)
    /\ p.names \in [DOMAIN p.cells -> Seq(Range(p.cells))]
    /\ \A a \in DOMAIN p.cells :
          LET c == p.cells[a] IN
          \/ /\ c.kind \in {"root", "type"} /\ p.names[a] = <<c>>
          \/ /\ c.kind = "pointer" /\ c.to \in 1..(a - 1)
             /\ p.names[a] = p.names[c.to]
          \/ /\ c.kind = "label" /\ a + 1 \in DOMAIN p.cells
             /\ p.names[a] = <<c>> \o p.names[a + 1]
    /\ p.starts \in Seq(1..(Len(p.cells) + 1))
    /\ Len(p.starts) = Len(p.questions) + 1 /\ p.starts[1] = 1
    /\ \A n \in DOMAIN p.questions :
          LET q    == p.questions[n]
              last == p.starts[n + 1] - 2
          IN  /\ q.name \in Seq(Range(q.name)) /\ q.sameCase \in BOOLEAN
              /\ p.starts[n] <= last /\ p.names[p.starts[n]] = CellsOf(q)
              /\ \A a \in p.starts[n]..(last - 1) : p.cells[a].kind = "label"
              /\ p.cells[last].kind \in {"root", "pointer"}
              /\ p.cells[last + 1] = [kind |-> "type", type |-> q.type]

ASSUME PacketAssumption == \A packet \in Packets : WellWritten(packet)

\* The labels Label::Reader returns for a name, through the pointers.
NameRead[a \in DOMAIN incoming] ==
    CASE incoming[a].kind = "pointer" -> NameRead[incoming[a].to]
      [] incoming[a].kind = "label"   -> <<incoming[a]>> \o NameRead[a + 1]
      [] OTHER                        -> <<incoming[a]>>

\* Wrong variant: reading goes on where the last pointer led.
AfterTarget(a) ==
    LET end[b \in DOMAIN incoming] ==
            CASE incoming[b].kind = "pointer" -> end[incoming[b].to]
              [] incoming[b].kind = "label"   -> end[b + 1]
              [] OTHER                        -> b + 1
    IN  end[a]

\* Buffer::reset returns to the mark, which only the first pointer sets.
AfterName(a) ==
    1 + Min({b \in a..Len(incoming) : incoming[b].kind \in {"pointer", "root"}})

CaseSensitive(l) == l[1] = "instance"

\* Label::Iterator compares size and text of one label after the other.
Equal(l, cell) ==
    IF l = ROOT THEN cell.kind = "root"
    ELSE cell.kind = "label" /\ cell.text = TextOf(l)
            /\ (cell.sameCase \/ ~CaseSensitive(l))

Matches(l, name) ==
    /\ Len(name) = Len(Chain(l))
    /\ \A k \in DOMAIN name : Equal(Chain(l)[k], name[k])

\* Wrong variant: addService gives a subservice its PTR record but no instance.
PointersOfService(l) == {r \in ToSet(records) : r[1] = "PTR" /\ Owner(r) = l}

\* The instances a service label knows, and the PTR record of each.
Pointers(l) == {r \in ToSet(records) : r[1] \in {"PTR", "subPTR"} /\ Owner(r) = l}

\* The methods matched(): which records become answers ...
MatchedAnswers(l, type) ==
    CASE l = Host -> IF type \in {"A", "ANY"} THEN {HostA} ELSE {HostNSEC}
      [] l[1] = "instance" ->
           (CASE type = "SRV" -> {SRV(l[2])}
              [] type = "TXT" -> {TXT(l[2])}
              [] type = "ANY" -> {SRV(l[2]), TXT(l[2])}
              [] OTHER        -> {NSEC(l[2])})
      [] OTHER -> IF type \in {"PTR", "ANY"} THEN Pointers(l) ELSE {}

\* ... and which additional records.
MatchedAdditionals(l, type) ==
    CASE l = Host -> IF type \in {"A", "ANY"} THEN {HostNSEC} ELSE {}
      [] l[1] = "instance" ->
           (CASE type = "SRV" -> {TXT(l[2]), NSEC(l[2]), HostA}
              [] type = "TXT" -> {SRV(l[2]), NSEC(l[2]), HostA}
              [] type = "ANY" -> {NSEC(l[2]), HostA}
              [] OTHER        -> {})
      [] OTHER ->
           IF type \in {"PTR", "ANY"}
           THEN {HostA} \cup UNION {{SRV(r[2]), TXT(r[2])} : r \in Pointers(l)}
           ELSE {}

MatchQuestion ==
    /\ pc = "match" /\ left > 0
    /\ LET name    == NameRead[readOffset]
           after   == AfterName(readOffset)
           type    == incoming[after].type
           matched == {l \in labels : Matches(l, name)}
       IN  /\ answer' = answer \cup UNION {MatchedAnswers(l, type) : l \in matched}
           /\ additional' = additional \cup
                  UNION {MatchedAdditionals(l, type) : l \in matched}
           /\ readOffset' = after + 1
    /\ left' = left - 1
    /\ UNCHANGED <<setup, incoming, asked, written, pc>>

WriteHeader ==
    /\ pc = "match" /\ left = 0
    /\ incoming' = <<>> /\ readOffset' = 1       \* Buffer::clear
    /\ offset' = IF answer # {} THEN HEADER_SIZE ELSE 0
    /\ pc' = IF answer # {} THEN "answers" ELSE "reset"
    /\ UNCHANGED <<setup, left, asked, answer, additional, writeOffset, image,
                   entries>>

----------------------------------------------------------------------------
(* Label::write writes the labels of a name that have no offset yet, up to *)
(* the first that has one, and for that a pointer.                         *)

NewLabels(name, offsets) ==
    LET done == {k \in DOMAIN name : name[k] \in DOMAIN offsets}
    IN  IF done = {} THEN name ELSE SubSeq(name, 1, Min(done) - 1)

\* The bytes of the first n labels.
SizeTo(name, n) ==
    LET size[k \in 0..Len(name)] ==
            IF k = 0 THEN 0 ELSE size[k - 1] + NameSize[name[k][1]] + 1
    IN  size[n]

SizeOf(name) == SizeTo(name, Len(name))

\* Wrong variant: the size of the whole name, compressed or not.
FullWriteSize(l, offsets) == SizeOf(Chain(l)) % 256

\* getWriteSize counts in a uint8_t.
WriteSize(l, offsets) ==
    LET new == NewLabels(Chain(l), offsets)
    IN  (SizeOf(new) + IF new = Chain(l) THEN 0 ELSE 2) % 256

\* Wrong variant: it writes on.
Uncapped(n) == n

\* writeUInt8 drops what does not fit.
Capped(n) == Min({n, BUFFER_SIZE})

Skip(w, n) == [at |-> Capped(w.at + n), offsets |-> w.offsets, image |-> w.image]

\* w is the state of the writing: where it is at, the image, the offsets.
WriteName(l, w) ==
    LET name   == Chain(l)
        new    == NewLabels(name, w.offsets)
        at(k)  == Capped(w.at + SizeTo(new, k - 1))
        end    == at(Len(new) + 1)
        places == {at(k) : k \in DOMAIN new}
        jumps  == IF new = name THEN {} ELSE {end}
    IN  [at |-> IF new = name THEN end ELSE Capped(end + 2),
         offsets |->
            [l2 \in DOMAIN w.offsets \cup ToSet(new) |->
                IF l2 \in ToSet(new) THEN at(CHOOSE k \in DOMAIN new : new[k] = l2)
                ELSE w.offsets[l2]],
         image |->
            [a \in DOMAIN w.image \cup places \cup jumps |->
                IF a \in places THEN new[CHOOSE k \in DOMAIN new : at(k) = a]
                ELSE IF a \in jumps THEN <<"pointer", w.offsets[name[Len(new) + 1]]>>
                ELSE w.image[a]]]

\* writeSpecific: the length it declares, then the data.
DataLength(r, w) ==
    CASE r = HostA         -> 4
      [] r = HostNSEC      -> 5
      [] r[1] = "NSEC"     -> 9
      [] r[1] = "SRV"      -> 6 + WriteSize(Host, w.offsets)
      [] r[1] = "TXT"      -> TxtSize
      [] OTHER             -> WriteSize(InstanceAt(r[2]), w.offsets)

WriteData(r, w) ==
    CASE r = HostA         -> Skip(w, 4)
      [] r = HostNSEC      -> Skip(WriteName(Host, w), 3)
      [] r[1] = "NSEC"     -> Skip(WriteName(InstanceAt(r[2]), w), 7)
      [] r[1] = "SRV"      -> WriteName(Host, Skip(w, 6))
      [] r[1] = "TXT"      -> Skip(w, TxtSize)
      [] OTHER             -> WriteName(InstanceAt(r[2]), w)

\* Record::write: name, type, class and time to live (8 bytes), length, data.
WriteRecord(r) ==
    LET start == [at |-> offset, image |-> image, offsets |-> writeOffset]
        data  == Skip(WriteName(Owner(r), start), 10)
        end   == WriteData(r, data)
    IN  /\ writeOffset' = end.offsets /\ image' = end.image
        /\ offset' = end.at
        /\ entries' = Append(entries,
              [record |-> r, section |-> pc, name |-> offset, data |-> data.at,
               length |-> DataLength(r, data), end |-> end.at])

\* Wrong variant: an additional record that is an answer too is written twice.
InBothSections(section) == IF section = "answers" THEN answer ELSE additional

\* isAnswerRecord and isAdditionalRecord; nothing ever sets knownRecord.
InSection(section) ==
    IF section = "answers" THEN answer ELSE additional \ answer

\* Where the records of the section are that are still to be written.
Due(section) ==
    LET done == {e.record : e \in {x \in ToSet(entries) : x.section = section}}
    IN  {n \in DOMAIN records : records[n] \in InSection(section) \ done}

WriteNext ==
    /\ pc \in {"answers", "additionals"} /\ Due(pc) # {}
    /\ WriteRecord(records[Min(Due(pc))])
    /\ UNCHANGED <<setup, query, answer, additional, pc>>

EndSection ==
    /\ pc \in {"answers", "additionals"} /\ Due(pc) = {}
    /\ pc' = IF pc = "answers" THEN "additionals" ELSE "reset"
    /\ UNCHANGED <<setup, query, answer, additional, written>>

\* Wrong variant: only the labels in the map are reset.
ResetInMapOnly == labels

\* Label::reset goes from each label in the map to the end of its name.
ResetLabels == UNION {ToSet(Chain(l)) : l \in labels}

\* Labels and records are reset, and the packet is sent if it has a length.
Reset ==
    /\ pc = "reset"
    /\ answer' = {} /\ additional' = {}
    /\ writeOffset' = [l \in DOMAIN writeOffset \ ResetLabels |-> writeOffset[l]]
    /\ offset' = 0 /\ image' = Nothing /\ entries' = <<>> /\ asked' = NoPacket
    /\ pc' = "idle"
    /\ UNCHANGED <<setup, incoming, readOffset, left>>

----------------------------------------------------------------------------
processQueries ==
    \/ \E packet \in Packets : Receive(packet)
    \/ MatchQuestion \/ WriteHeader \/ WriteNext \/ EndSection \/ Reset

Next == (\E i \in Instance : AddService(i)) \/ begin \/ processQueries

Spec == Init /\ [][Next]_vars
=============================================================================
