------------------------- MODULE MdnsResponderProofs -------------------------
(***************************************************************************)
(* The properties of the mDNS responder hold for any instances, services,  *)
(* packets and lengths of names.                                           *)
(***************************************************************************)
EXTENDS MdnsNamesProofs, SequenceTheorems

----------------------------------------------------------------------------
(* The inductive invariant.                                                *)

\* What the k-th call of addService brings.
LabelsAt(k) == {Service(ServiceAt(k)), InstanceAt(k)}
                   \cup {Sub(x, ServiceAt(k)) : x \in Range(SubsOf[added[k]])}

RecordsAt(k) == {PTR(k), SRV(k), TXT(k), NSEC(k)}
                    \cup {SubPTR(k, x) : x \in Range(SubsOf[added[k]])}

Known == {HostA, HostNSEC} \cup UNION {RecordsAt(k) : k \in DOMAIN added}

\* Of the labels of an instance added twice the map has one at most.
SetupInv ==
    /\ added \in Seq(Instance) /\ Len(added) <= MaxServices
    /\ records \in Seq(Known) /\ ToSet(records) = Known
    /\ Host \in labels
    /\ labels \subseteq {Host} \cup UNION {LabelsAt(k) : k \in DOMAIN added}
    /\ \A k \in DOMAIN added : LabelsAt(k) \ {InstanceAt(k)} \subseteq labels
    /\ \A j, k \in DOMAIN added :
          InstanceAt(j) \in labels /\ InstanceAt(k) \in labels
             /\ added[j] = added[k] => j = k
    /\ Distinct => \A k \in DOMAIN added : InstanceAt(k) \in labels

PhaseInv ==
    /\ pc \in {"setup", "idle", "match", "answers", "additionals", "reset"}
    /\ pc # "match" => incoming = <<>> /\ readOffset = 1 /\ left = 0
    /\ pc \in {"setup", "idle"} => asked = NoPacket /\ answer = {} /\ additional = {}
    /\ pc \in {"setup", "idle", "match"} => offset = 0 /\ image = Nothing /\ entries = <<>>
    /\ pc = "setup" => writeOffset = Nothing
    /\ pc \in {"answers", "additionals"} => answer # {}

\* The questions read so far, and what they asked for.
ReadInv ==
    /\ WellWritten(asked)
    /\ left \in 0..Len(asked.questions)
    /\ pc = "match" =>
          /\ incoming = asked.cells
          /\ readOffset = asked.starts[Len(asked.questions) - left + 1]
    /\ answer = UNION {AnswerTo(asked.questions[n]) :
                          n \in 1..(Len(asked.questions) - left)}

\* With a record there are those that its reader asks for next.
Closed(S) == \A r \in S : Type(r) \in {"PTR", "SRV", "TXT"} =>
                             {SRV(r[2]), TXT(r[2]), HostA} \subseteq S

FoundInv ==
    /\ answer \cup additional \subseteq Known
    /\ Closed(answer \cup additional)

There == {e.record : e \in ToSet(entries)}

\* An answer is written once, then an additional record that is none.
EntriesInv ==
    /\ entries \in Seq(ToSet(entries))
    /\ \A e \in ToSet(entries) :
          \/ e.section = "answers" /\ e.record \in answer
          \/ /\ e.section = "additionals" /\ e.record \in additional \ answer
             /\ pc # "answers"
    /\ \A m, n \in DOMAIN entries : entries[m].record = entries[n].record => m = n
    /\ pc \in {"additionals", "reset"} => answer \subseteq There
    /\ pc = "reset" => entries = <<>> \/ additional \subseteq There

Writing == [at |-> offset, image |-> image, offsets |-> writeOffset]

WriteInv == Within(Writing) /\ DOMAIN writeOffset \subseteq Labels

\* Where an entry's names are.
EntryReads(e, w) ==
    Starts(e.name, Owner(e.record), w) /\ DataReads(e.record, e.data, w)

\* No offset outlives its packet.
NamesInv ==
    Distinct =>
        /\ pc \in {"setup", "idle", "match"} => writeOffset = Nothing
        /\ Fits => Readable(Writing) /\ \A e \in ToSet(entries) : EntryReads(e, Writing)

Inv == SetupInv /\ PhaseInv /\ ReadInv /\ FoundInv /\ EntriesInv /\ WriteInv
          /\ LengthsTrue /\ NamesInv

----------------------------------------------------------------------------
(* Sequences.                                                              *)

\* What Append does to a sequence.
LEMMA AppendIs ==
    ASSUME NEW S, NEW s \in Seq(S), NEW x, NEW t, t = Append(s, x)
    PROVE  /\ t \in Seq(S \cup {x}) /\ Len(t) = Len(s) + 1 /\ Len(s) \in Nat
           /\ t[Len(s) + 1] = x
           /\ \A n \in 1..Len(s) : n \in DOMAIN s /\ t[n] = s[n]
           /\ DOMAIN t = 1..(Len(s) + 1)
<1>1. s \in Seq(S \cup {x})
  OBVIOUS
<1>2. /\ t \in Seq(S \cup {x}) /\ Len(t) = Len(s) + 1
      /\ t[Len(s) + 1] = x
      /\ \A n \in 1..Len(s) : t[n] = s[n]
  BY <1>1, AppendProperties
<1>3. DOMAIN s = 1..Len(s) /\ Len(s) \in Nat /\ DOMAIN t = 1..(Len(s) + 1)
  BY <1>2
<1>4. QED  BY <1>2, <1>3

\* What is in a concatenation.
LEMMA ConcatSet ==
    ASSUME NEW S, NEW s \in Seq(S), NEW t \in Seq(S)
    PROVE  s \o t \in Seq(S) /\ ToSet(s \o t) = ToSet(s) \cup ToSet(t)
<1> DEFINE u == s \o t
<1>1. /\ u \in Seq(S) /\ Len(u) = Len(s) + Len(t)
      /\ \A n \in 1..Len(s) : u[n] = s[n]
      /\ \A n \in 1..Len(t) : u[Len(s) + n] = t[n]
  BY ConcatProperties
<1>2. /\ DOMAIN s = 1..Len(s) /\ Len(s) \in Nat /\ DOMAIN t = 1..Len(t) /\ Len(t) \in Nat
      /\ DOMAIN u = 1..Len(u)
  BY <1>1
<1> HIDE DEF u
<1>3. \A n \in DOMAIN u : u[n] \in ToSet(s) \cup ToSet(t)
  <2> SUFFICES ASSUME NEW n \in DOMAIN u PROVE u[n] \in ToSet(s) \cup ToSet(t)
    OBVIOUS
  <2>1. n \in 1..Len(s) \/ (n - Len(s) \in 1..Len(t) /\ n = Len(s) + (n - Len(s)))
    BY <1>1, <1>2
  <2>2. QED  BY <1>1, <1>2, <2>1 DEF ToSet
<1>4. \A n \in DOMAIN s : n \in DOMAIN u /\ s[n] = u[n]
  BY <1>1, <1>2
<1>5. \A n \in DOMAIN t : Len(s) + n \in DOMAIN u /\ t[n] = u[Len(s) + n]
  BY <1>1, <1>2
<1>6. ToSet(u) = ToSet(s) \cup ToSet(t)
  BY <1>3, <1>4, <1>5 DEF ToSet
<1>7. QED  BY <1>1, <1>6 DEF u

----------------------------------------------------------------------------
(* addService.                                                             *)

\* What addService appends is what RecordsAt lists.
LEMMA RecordsOfSet ==
    ASSUME NEW k, NEW i \in Instance
    PROVE  LET new == {PTR(k), SRV(k), TXT(k), NSEC(k)}
                          \cup {SubPTR(k, x) : x \in Range(SubsOf[i])}
           IN  RecordsOf(k, i) \in Seq(new) /\ ToSet(RecordsOf(k, i)) = new
<1> DEFINE own  == {PTR(k), SRV(k), TXT(k), NSEC(k)}
           subs == {SubPTR(k, x) : x \in Range(SubsOf[i])}
           s    == <<PTR(k), SRV(k), TXT(k), NSEC(k)>>
           t    == [n \in DOMAIN SubsOf[i] |-> SubPTR(k, SubsOf[i][n])]
<1>1. s \in Seq(own \cup subs) /\ ToSet(s) = own
  <2>1. /\ s \in Seq(own) /\ DOMAIN s = 1..4 /\ s[1] = PTR(k) /\ s[2] = SRV(k)
        /\ s[3] = TXT(k) /\ s[4] = NSEC(k)
    OBVIOUS
  <2> HIDE DEF s
  <2>2. ToSet(s) = own
    BY <2>1 DEF ToSet
  <2>3. QED  BY <2>1, <2>2
<1>2. t \in Seq(own \cup subs) /\ ToSet(t) = subs
  <2>1. SubsOf[i] \in Seq(Range(SubsOf[i]))
    BY SubsAssumption
  <2>2. DOMAIN SubsOf[i] = 1..Len(SubsOf[i]) /\ Len(SubsOf[i]) \in Nat
    BY <2>1
  <2>3. \A n \in DOMAIN SubsOf[i] : SubPTR(k, SubsOf[i][n]) \in subs
    BY DEF Range
  <2>4. t \in Seq(own \cup subs)
    BY <2>2, <2>3
  <2>5. ToSet(t) = subs
    BY DEF ToSet, Range
  <2>6. QED  BY <2>4, <2>5
<1>3. RecordsOf(k, i) = s \o t
  BY DEF RecordsOf
<1> HIDE DEF s, t, own, subs
<1>4. QED  BY <1>1, <1>2, <1>3, ConcatSet DEF own, subs

\* addService keeps labels and records in agreement with the calls made.
LEMMA AddServiceSetup ==
    ASSUME SetupInv, NEW i \in Instance, AddService(i)
    PROVE  SetupInv'
<1> SUFFICES ASSUME NEW n, n = Len(added), NEW k, k = n + 1
             PROVE  SetupInv'
  OBVIOUS
<1> DEFINE subs == {Sub(x, ServiceOf[i]) : x \in Range(SubsOf[i])}
<1>1. /\ added' = Append(added, i) /\ n < MaxServices
      /\ labels' = {l \in labels : TextOf(l) # <<"instance", i>>}
                      \cup {Service(ServiceOf[i]), InstanceAt(k)} \cup subs
      /\ records' = records \o RecordsOf(k, i)
  BY DEF AddService
<1>2. /\ added \in Seq(Instance) /\ n \in Nat /\ DOMAIN added = 1..n
      /\ added' \in Seq(Instance) /\ Len(added') = k /\ DOMAIN added' = 1..k
      /\ added'[k] = i /\ \A j \in 1..n : added'[j] = added[j]
  <2>1. added \in Seq(Instance)
    BY DEF SetupInv
  <2>2. QED  BY <1>1, <2>1, AppendIs
<1>3. Len(added') <= MaxServices
  BY <1>1, <1>2, SizeAssumption
<1>4. \A j \in 1..n : LabelsAt(j)' = LabelsAt(j) /\ RecordsAt(j)' = RecordsAt(j)
  BY <1>2 DEF LabelsAt, RecordsAt, ServiceAt
<1>5. LabelsAt(k)' = {Service(ServiceOf[i]), InstanceAt(k)} \cup subs
  BY <1>2 DEF LabelsAt, ServiceAt
<1>6. RecordsAt(k)' = {PTR(k), SRV(k), TXT(k), NSEC(k)}
                          \cup {SubPTR(k, x) : x \in Range(SubsOf[i])}
  BY <1>2 DEF RecordsAt
<1>7. DOMAIN added' = DOMAIN added \cup {k}
  BY <1>2
<1> HIDE DEF subs
<1>8. Known' = Known \cup RecordsAt(k)'
  BY <1>2, <1>4, <1>7 DEF Known
<1>9. records' \in Seq(Known') /\ ToSet(records') = Known'
  <2>1. records \in Seq(Known) /\ ToSet(records) = Known
    BY DEF SetupInv
  <2>2. RecordsOf(k, i) \in Seq(RecordsAt(k)') /\ ToSet(RecordsOf(k, i)) = RecordsAt(k)'
    <3> DEFINE new == {PTR(k), SRV(k), TXT(k), NSEC(k)}
                          \cup {SubPTR(k, x) : x \in Range(SubsOf[i])}
    <3>1. RecordsOf(k, i) \in Seq(new) /\ ToSet(RecordsOf(k, i)) = new
      BY RecordsOfSet
    <3>2. RecordsAt(k)' = new
      BY <1>6
    <3> HIDE DEF new
    <3>3. QED  BY <3>1, <3>2
  <2>3. records \in Seq(Known') /\ RecordsOf(k, i) \in Seq(Known')
    BY <1>8, <2>1, <2>2
  <2>4. QED  BY <1>1, <1>8, <2>1, <2>2, <2>3, ConcatSet
<1>10. \A l \in labels : l # Host =>
          \E j \in DOMAIN added : l \in LabelsAt(j)
  BY DEF SetupInv
<1>11. \A l : l[1] # "instance" => TextOf(l) # <<"instance", i>>
  BY DEF TextOf
<1>12. \A j, x, s : Host[1] # "instance" /\ Service(s)[1] # "instance" /\ Sub(x, s)[1] # "instance"
  BY DEF Host, Service, Sub
<1>13. Host \in labels'
  BY <1>1, <1>11, <1>12 DEF SetupInv
<1>14. labels' \subseteq {Host} \cup UNION {LabelsAt(j)' : j \in DOMAIN added'}
  <2>1. \A l \in labels' : l # Host => \E j \in DOMAIN added' : l \in LabelsAt(j)'
    BY <1>1, <1>2, <1>4, <1>5, <1>7, <1>10
  <2>2. QED  BY <2>1
<1>15. \A j \in DOMAIN added' : LabelsAt(j)' \ {InstanceAt(j)} \subseteq labels'
  <2> SUFFICES ASSUME NEW j \in DOMAIN added', NEW l \in LabelsAt(j)', l # InstanceAt(j)
               PROVE  l \in labels'
    OBVIOUS
  <2>1. CASE j = k
    BY <1>1, <1>5, <2>1
  <2>2. CASE j \in DOMAIN added
    <3>1. l \in LabelsAt(j) /\ l \in labels
      BY <1>2, <1>4, <2>2 DEF SetupInv
    <3>2. l[1] # "instance"
      BY <1>12, <3>1 DEF LabelsAt
    <3>3. QED  BY <1>1, <1>11, <3>1, <3>2
  <2>3. QED  BY <1>7, <2>1, <2>2
<1>16. \A j \in DOMAIN added : TextOf(InstanceAt(j)) = <<"instance", added[j]>>
  BY DEF TextOf, InstanceAt
<1>17. \A j, m : InstanceAt(j) = InstanceAt(m) => j = m
  BY DEF InstanceAt
<1>18. \A j \in DOMAIN added : k # j
  BY <1>2
<1>19. \A j \in DOMAIN added :
          InstanceAt(j) \in labels' <=> InstanceAt(j) \in labels /\ added[j] # i
  <2> SUFFICES ASSUME NEW j \in DOMAIN added
               PROVE  InstanceAt(j) \in labels' <=> InstanceAt(j) \in labels /\ added[j] # i
    OBVIOUS
  <2>1. InstanceAt(j) \notin {Service(ServiceOf[i]), InstanceAt(k)} \cup subs
    BY <1>18, <1>17, <1>12 DEF subs, InstanceAt
  <2>2. TextOf(InstanceAt(j)) # <<"instance", i>> <=> added[j] # i
    BY <1>16
  <2>3. QED  BY <1>1, <2>1, <2>2
<1>20. \A j, m \in DOMAIN added' :
          InstanceAt(j) \in labels' /\ InstanceAt(m) \in labels'
             /\ added'[j] = added'[m] => j = m
  <2>1. \A j \in DOMAIN added : InstanceAt(j) \in labels' => added'[j] # i
    BY <1>2, <1>19
  <2>2. \A j, m \in DOMAIN added :
           InstanceAt(j) \in labels' /\ InstanceAt(m) \in labels'
              /\ added'[j] = added'[m] => j = m
    BY <1>2, <1>19 DEF SetupInv
  <2>3. QED  BY <1>2, <1>7, <2>1, <2>2
<1>21. Distinct' => \A j \in DOMAIN added' : InstanceAt(j) \in labels'
  <2> SUFFICES ASSUME Distinct', NEW j \in DOMAIN added'
               PROVE  InstanceAt(j) \in labels'
    OBVIOUS
  <2>1. \A a, b \in DOMAIN added' : added'[a] = added'[b] => a = b
    BY DEF Distinct, IsInjective
  <2>2. Distinct
    BY <1>2, <1>7, <2>1 DEF Distinct, IsInjective
  <2>3. CASE j = k
    BY <1>1, <2>3
  <2>4. CASE j \in DOMAIN added
    <3>1. InstanceAt(j) \in labels
      BY <2>2, <2>4 DEF SetupInv
    <3>2. added[j] # i
      BY <1>2, <1>7, <1>18, <2>1, <2>4
    <3>3. QED  BY <1>19, <2>4, <3>1, <3>2
  <2>5. QED  BY <1>7, <2>3, <2>4
<1>22. QED
  BY <1>2, <1>3, <1>9, <1>13, <1>14, <1>15, <1>20, <1>21 DEF SetupInv

\* Nothing else touches them.
LEMMA SetupKept ==
    ASSUME SetupInv, UNCHANGED setup
    PROVE  SetupInv'
<1>1. added' = added /\ labels' = labels /\ records' = records
  BY DEF setup
<1>2. Known' = Known /\ \A k : LabelsAt(k)' = LabelsAt(k)
  BY <1>1 DEF Known, LabelsAt, RecordsAt, ServiceAt
<1>3. Distinct' = Distinct
  BY <1>1 DEF Distinct
<1>4. QED  BY <1>1, <1>2, <1>3 DEF SetupInv

----------------------------------------------------------------------------
(* Reading.                                                                *)

(* The reader finds what the sender meant: a name gets shorter from label  *)
(* to label, and a pointer leads back.                                     *)
LEMMA NameReadIs ==
    ASSUME WellWritten(asked), incoming = asked.cells
    PROVE  NameRead = asked.names
<1> DEFINE D == DOMAIN incoming
           Body(g) == [a \in D |->
               CASE incoming[a].kind = "pointer" -> g[incoming[a].to]
                 [] incoming[a].kind = "label"   -> <<incoming[a]>> \o g[a + 1]
                 [] OTHER                        -> <<incoming[a]>>]
           names == asked.names
<1>1. /\ incoming \in Seq(Range(incoming)) /\ D = 1..Len(incoming)
      /\ names \in [D -> Seq(Range(incoming))]
      /\ \A a \in D :
            \/ incoming[a].kind \in {"root", "type"} /\ names[a] = <<incoming[a]>>
            \/ /\ incoming[a].kind = "pointer" /\ incoming[a].to \in 1..(a - 1)
               /\ names[a] = names[incoming[a].to]
            \/ /\ incoming[a].kind = "label" /\ a + 1 \in D
               /\ names[a] = <<incoming[a]>> \o names[a + 1]
  <2>1. /\ asked.cells \in Seq(Range(asked.cells))
        /\ asked.names \in [DOMAIN asked.cells -> Seq(Range(asked.cells))]
    BY DEF WellWritten
  <2>2. \A a \in DOMAIN asked.cells :
           \/ /\ asked.cells[a].kind \in {"root", "type"}
              /\ asked.names[a] = <<asked.cells[a]>>
           \/ /\ asked.cells[a].kind = "pointer" /\ asked.cells[a].to \in 1..(a - 1)
              /\ asked.names[a] = asked.names[asked.cells[a].to]
           \/ /\ asked.cells[a].kind = "label" /\ a + 1 \in DOMAIN asked.cells
              /\ asked.names[a] = <<asked.cells[a]>> \o asked.names[a + 1]
    BY DEF WellWritten
  <2>3. incoming \in Seq(Range(incoming)) => D = 1..Len(incoming)
    OBVIOUS
  <2>4. QED  BY <2>1, <2>2, <2>3
<1>2. NameRead = CHOOSE g : g = Body(g)
  BY DEF NameRead
<1> HIDE DEF names, D
<1>3. names = Body(names)
  <2>1. \A a \in D : names[a] = Body(names)[a]
    BY <1>1
  <2>2. QED  BY <1>1, <2>1
<1> HIDE DEF Body
<1>4. NameRead = Body(NameRead)
  BY <1>2, <1>3
<1>5. /\ NameRead = [a \in D |-> NameRead[a]]
      /\ \A a \in D :
            /\ incoming[a].kind = "pointer" => NameRead[a] = NameRead[incoming[a].to]
            /\ incoming[a].kind = "label" => NameRead[a] = <<incoming[a]>> \o NameRead[a + 1]
            /\ incoming[a].kind \notin {"pointer", "label"} => NameRead[a] = <<incoming[a]>>
  BY <1>4 DEF Body
<1>6. \A a \in D : NameRead[a] = names[a]
  <2> DEFINE Wrong == {a \in D : NameRead[a] # names[a]}
             T1    == {Len(names[a]) : a \in Wrong}
  <2> SUFFICES ASSUME Wrong # {} PROVE FALSE
    OBVIOUS
  <2>1. D \subseteq Nat /\ \A a \in D : Len(names[a]) \in Nat
    BY <1>1
  <2>2. T1 \subseteq Nat /\ T1 # {}
    BY <2>1
  <2>3. \E m \in T1 : \A x \in T1 : m <= x
    <3> HIDE DEF T1
    <3>1. QED  BY <2>2, LeastElement
  <2>4. PICK m \in T1 : \A x \in T1 : m <= x
    BY <2>3
  <2> DEFINE T2 == {a \in Wrong : Len(names[a]) = m}
  <2>5. T2 \subseteq Nat /\ T2 # {}
    BY <2>1, <2>4
  <2>6. \E a \in T2 : \A x \in T2 : a <= x
    <3> HIDE DEF T2
    <3>1. QED  BY <2>5, LeastElement
  <2>7. PICK a \in T2 : \A x \in T2 : a <= x
    BY <2>6
  <2>8. a \in D /\ NameRead[a] # names[a] /\ Len(names[a]) = m /\ a \in Nat /\ m \in Nat
    BY <2>1, <2>7
  <2>9. \A b \in D : Len(names[b]) < m => NameRead[b] = names[b]
    BY <2>1, <2>4, <2>8
  <2>10. \A b \in D : Len(names[b]) = m /\ b < a => NameRead[b] = names[b]
    BY <2>1, <2>7, <2>8
  <2> HIDE DEF T1, T2, Wrong
  <2>11. CASE incoming[a].kind = "pointer"
    <3>1. /\ incoming[a].to \in D /\ incoming[a].to < a
          /\ names[a] = names[incoming[a].to]
      <4>1. incoming[a].to \in 1..(a - 1) /\ names[a] = names[incoming[a].to]
        BY <1>1, <2>8, <2>11
      <4>2. a \in 1..Len(incoming) /\ Len(incoming) \in Nat /\ D = 1..Len(incoming)
        BY <1>1, <2>8
      <4>3. \A b \in 1..(a - 1) : b \in 1..Len(incoming) /\ b < a
        BY <4>2
      <4>4. QED  BY <4>1, <4>2, <4>3
    <3>2. QED  BY <1>5, <2>8, <2>10, <2>11, <3>1
  <2>12. CASE incoming[a].kind = "label"
    <3>1. a + 1 \in D /\ names[a] = <<incoming[a]>> \o names[a + 1]
      BY <1>1, <2>8, <2>12
    <3>2. Len(names[a]) = 1 + Len(names[a + 1]) /\ Len(names[a + 1]) \in Nat
      <4>1. <<incoming[a]>> \in Seq(Range(incoming) \cup {incoming[a]}) /\ Len(<<incoming[a]>>) = 1
        OBVIOUS
      <4>2. names[a + 1] \in Seq(Range(incoming) \cup {incoming[a]})
        BY <1>1, <3>1
      <4>3. QED  BY <3>1, <4>1, <4>2, ConcatProperties
    <3>3. NameRead[a + 1] = names[a + 1]
      BY <2>8, <2>9, <3>1, <3>2
    <3>4. QED  BY <1>5, <2>8, <2>12, <3>1, <3>3
  <2>13. CASE incoming[a].kind \notin {"pointer", "label"}
    BY <1>1, <1>5, <2>8, <2>13
  <2>14. QED  BY <2>11, <2>12, <2>13
<1>7. names = [a \in D |-> names[a]]
  BY <1>1
<1>8. QED  BY <1>5, <1>6, <1>7 DEF names

\* Behind a question's name there is its type, and then the next question.
LEMMA AfterNameIs ==
    ASSUME WellWritten(asked), incoming = asked.cells,
           NEW n \in DOMAIN asked.questions
    PROVE  /\ asked.starts[n] \in DOMAIN incoming
           /\ AfterName(asked.starts[n]) + 1 = asked.starts[n + 1]
           /\ incoming[AfterName(asked.starts[n])].type = asked.questions[n].type
           /\ asked.names[asked.starts[n]] = CellsOf(asked.questions[n])
<1> DEFINE a    == asked.starts[n]
           last == asked.starts[n + 1] - 2
           S    == {b \in a..Len(incoming) : incoming[b].kind \in {"pointer", "root"}}
<1>1. /\ a <= last /\ asked.names[a] = CellsOf(asked.questions[n])
      /\ \A b \in a..(last - 1) : incoming[b].kind = "label"
      /\ incoming[last].kind \in {"root", "pointer"}
      /\ incoming[last + 1] = [kind |-> "type", type |-> asked.questions[n].type]
  BY DEF WellWritten
<1>2. /\ incoming \in Seq(Range(incoming))
      /\ asked.questions \in Seq(Range(asked.questions))
      /\ asked.starts \in Seq(1..(Len(incoming) + 1))
      /\ Len(asked.starts) = Len(asked.questions) + 1
  BY DEF WellWritten
<1>3. Len(incoming) \in Nat /\ DOMAIN incoming = 1..Len(incoming)
  BY <1>2
<1>4. n \in 1..Len(asked.starts) /\ n + 1 \in 1..Len(asked.starts)
  BY <1>2
<1>5. a \in 1..(Len(incoming) + 1) /\ asked.starts[n + 1] \in 1..(Len(incoming) + 1)
  <2> DEFINE places == 1..(Len(incoming) + 1)
  <2>1. \A s \in Seq(places) : \A k \in 1..Len(s) : s[k] \in places
    <3> HIDE DEF places
    <3>1. QED  OBVIOUS
  <2>2. QED  BY <1>2, <1>4, <2>1
<1> DEFINE next == asked.starts[n + 1]
<1>6. last = next - 2
  OBVIOUS
<1> HIDE DEF a, next, last
<1>7. last \in a..Len(incoming) /\ last + 1 = next - 1 /\ a \in DOMAIN incoming
  <2>1. a \in 1..(Len(incoming) + 1) /\ next \in 1..(Len(incoming) + 1)
    BY <1>5 DEF next
  <2>2. last = next - 2 /\ a <= last /\ Len(incoming) \in Nat
    BY <1>1, <1>3, <1>6
  <2>3. last \in a..Len(incoming) /\ last + 1 = next - 1 /\ a \in 1..Len(incoming)
    BY <2>1, <2>2
  <2>4. QED  BY <1>3, <2>3
<1>8. last \in S /\ S \subseteq Nat
  BY <1>1, <1>5, <1>7
<1>9. \A b \in S : last <= b
  <2> SUFFICES ASSUME NEW b \in S, ~(last <= b) PROVE FALSE
    OBVIOUS
  <2>1. b \in a..(last - 1)
    BY <1>3, <1>5, <1>7
  <2>2. QED  BY <1>1, <2>1
<1>10. Min(S) = last
  <2> HIDE DEF S
  <2>1. Min(S) \in S /\ \A b \in S : Min(S) <= b
    BY <1>8, LeastOf
  <2> DEFINE m == Min(S)
  <2> HIDE DEF m
  <2>2. m \in Nat /\ last \in Nat /\ m <= last /\ last <= m
    BY <1>8, <1>9, <2>1 DEF m
  <2>3. QED  BY <2>2 DEF m
<1>11. AfterName(a) = last + 1
  <2>1. AfterName(a) = 1 + Min(S)
    BY DEF AfterName
  <2> HIDE DEF S
  <2>2. QED  BY <1>7, <1>10, <2>1, <1>5, <1>3
<1>12. next \in Nat
  BY <1>5 DEF next
<1>13. QED  BY <1>1, <1>7, <1>11, <1>12 DEF a, next

----------------------------------------------------------------------------
(* Matching a question.                                                    *)

\* Labels, owners and types of records.
LEMMA LabelStartsName ==
    ASSUME SetupInv, NEW l \in labels
    PROVE  StartsName(l)
BY DEF SetupInv, LabelsAt, StartsName

LEMMA LabelIs ==
    ASSUME SetupInv, NEW l \in labels
    PROVE  \/ l = Host /\ l[1] # "instance"
           \/ \E k \in DOMAIN added : l = InstanceAt(k)
           \/ l # Host /\ l[1] # "instance"
<1>1. Host[1] # "instance"
  BY DEF Host
<1>2. \A x, s : Service(s)[1] # "instance" /\ Sub(x, s)[1] # "instance"
  BY DEF Service, Sub
<1>3. l = Host \/ \E k \in DOMAIN added : l \in LabelsAt(k)
  BY DEF SetupInv
<1>4. ASSUME NEW k \in DOMAIN added, l \in LabelsAt(k)
      PROVE  l = InstanceAt(k) \/ l[1] # "instance"
  BY <1>2, <1>4 DEF LabelsAt
<1>5. QED  BY <1>1, <1>3, <1>4

LEMMA OwnerOf ==
    /\ Owner(HostA) = Host /\ Owner(HostNSEC) = Host
    /\ \A k : /\ Owner(PTR(k)) = Service(ServiceAt(k)) /\ Owner(SRV(k)) = InstanceAt(k)
              /\ Owner(TXT(k)) = InstanceAt(k) /\ Owner(NSEC(k)) = InstanceAt(k)
    /\ \A k, x : Owner(SubPTR(k, x)) = Sub(x, ServiceAt(k))
BY DEF Owner, HostA, HostNSEC, PTR, SRV, TXT, NSEC, SubPTR

LEMMA TypeOf ==
    /\ Type(HostA) = "A" /\ Type(HostNSEC) = "NSEC"
    /\ \A k : /\ Type(PTR(k)) = "PTR" /\ Type(SRV(k)) = "SRV"
              /\ Type(TXT(k)) = "TXT" /\ Type(NSEC(k)) = "NSEC"
    /\ \A k, x : Type(SubPTR(k, x)) = "PTR"
BY DEF Type, HostA, HostNSEC, PTR, SRV, TXT, NSEC, SubPTR

LEMMA KnownIs ==
    /\ HostA \in Known /\ HostNSEC \in Known
    /\ \A k \in DOMAIN added : {PTR(k), SRV(k), TXT(k), NSEC(k)} \subseteq Known
    /\ \A r \in Known :
          \/ r = HostA \/ r = HostNSEC
          \/ \E k \in DOMAIN added :
                \/ r = PTR(k) \/ r = SRV(k) \/ r = TXT(k) \/ r = NSEC(k)
                \/ \E x \in Range(SubsOf[added[k]]) : r = SubPTR(k, x)
BY DEF Known, RecordsAt

\* A name matches a label if its texts are those from the label on.
LEMMA MatchesMeans ==
    ASSUME NEW l, StartsName(l), NEW q, q.name \in Seq(Range(q.name)), q.sameCase \in BOOLEAN
    PROVE  Matches(l, CellsOf(q)) <=>
              /\ q.name = [k \in DOMAIN Chain(l) |-> TextOf(Chain(l)[k])]
              /\ q.sameCase \/ l[1] # "instance"
<1> DEFINE c == Chain(l)
           t == q.name
           name == CellsOf(q)
<1>1. \A m, x : Equal(m, Cell(q, x)) <=> x = TextOf(m) /\ (q.sameCase \/ m[1] # "instance")
  <2> TAKE m, x
  <2>2. ROOT[1] # "instance" /\ \A y : <<"instance", y>> # ROOT
    BY DEF ROOT
  <2>1. TextOf(m) = ROOT <=> m = ROOT
    BY <2>2 DEF TextOf
  <2>3. CASE m = ROOT
    <3>1. Equal(m, Cell(q, x)) <=> x = ROOT
      BY <2>3 DEF Equal, Cell
    <3>2. QED  BY <2>1, <2>2, <2>3, <3>1
  <2>4. CASE m # ROOT
    <3>1. Equal(m, Cell(q, x)) <=>
             x # ROOT /\ x = TextOf(m) /\ (q.sameCase \/ m[1] # "instance")
      BY <2>4 DEF Equal, Cell, CaseSensitive
    <3>2. QED  BY <2>1, <2>4, <3>1
  <2>5. QED  BY <2>3, <2>4
<1>2. Linked(c) /\ c[1] = l
  BY ChainLinked
<1>3. \A k \in DOMAIN c : k # 1 => c[k][1] # "instance"
  <2>2. CASE l = Host
    <3>1. DOMAIN c = 1..3 /\ c[2] = LOCAL_NAME /\ c[3] = ROOT
      BY <2>2, ChainOfHost
    <3>2. QED  BY <3>1 DEF LOCAL_NAME, ROOT
  <2>3. ASSUME NEW s, l = Service(s)
        PROVE  \A k \in DOMAIN c : k # 1 => c[k][1] # "instance"
    <3>1. DOMAIN c = 1..4 /\ c[2] = Protocol(s) /\ c[3] = LOCAL_NAME /\ c[4] = ROOT
      BY <2>3, ChainOfService
    <3>2. QED  BY <3>1 DEF LOCAL_NAME, ROOT, Protocol
  <2>4. ASSUME NEW k, l = InstanceAt(k)
        PROVE  \A n \in DOMAIN c : n # 1 => c[n][1] # "instance"
    <3>1. /\ DOMAIN c = 1..5 /\ c[2] = Service(ServiceAt(k)) /\ c[3] = Protocol(ServiceAt(k))
          /\ c[4] = LOCAL_NAME /\ c[5] = ROOT
      BY <2>4, ChainOfInstance
    <3>2. QED  BY <3>1 DEF LOCAL_NAME, ROOT, Protocol, Service
  <2>5. ASSUME NEW x, NEW s, l = Sub(x, s)
        PROVE  \A n \in DOMAIN c : n # 1 => c[n][1] # "instance"
    <3>1. /\ DOMAIN c = 1..6 /\ c[2] = SubMark(x, s) /\ c[3] = Service(s)
          /\ c[4] = Protocol(s) /\ c[5] = LOCAL_NAME /\ c[6] = ROOT
      BY <2>5, ChainOfSub
    <3>2. QED  BY <3>1 DEF LOCAL_NAME, ROOT, Protocol, Service, SubMark
  <2>6. QED  BY <2>2, <2>3, <2>4, <2>5 DEF StartsName
<1> HIDE DEF c
<1>4. Len(c) \in Nat \ {0} /\ DOMAIN c = 1..Len(c) /\ 1 \in DOMAIN c
  BY <1>2 DEF Linked
<1>5. Len(t) \in Nat /\ DOMAIN t = 1..Len(t) /\ t = [k \in DOMAIN t |-> t[k]]
  OBVIOUS
<1>6. /\ DOMAIN name = DOMAIN t /\ Len(name) = Len(t)
      /\ \A k \in DOMAIN t : name[k] = Cell(q, t[k])
  BY <1>5 DEF CellsOf
<1> HIDE DEF name
<1>7. Matches(l, name) <=>
         /\ Len(t) = Len(c)
         /\ \A k \in DOMAIN t : t[k] = TextOf(c[k]) /\ (q.sameCase \/ c[k][1] # "instance")
  BY <1>1, <1>6 DEF Matches, c
<1> HIDE DEF t
<1>8. Len(t) = Len(c) => DOMAIN t = DOMAIN c
  BY <1>4, <1>5
<1>9. Matches(l, name) <=>
         /\ Len(t) = Len(c)
         /\ \A k \in DOMAIN t : t[k] = TextOf(c[k])
         /\ q.sameCase \/ l[1] # "instance"
  BY <1>2, <1>3, <1>4, <1>7, <1>8, SMTT(30)
<1>10. t = [k \in DOMAIN c |-> TextOf(c[k])] <=>
          Len(t) = Len(c) /\ \A k \in DOMAIN t : t[k] = TextOf(c[k])
  <2>1. ASSUME t = [k \in DOMAIN c |-> TextOf(c[k])]
        PROVE  Len(t) = Len(c) /\ \A k \in DOMAIN t : t[k] = TextOf(c[k])
    <3>1. DOMAIN t = DOMAIN c /\ \A k \in DOMAIN t : t[k] = TextOf(c[k])
      BY <2>1
    <3>2. \A m, n \in Nat : 1..m = 1..n => m = n
      OBVIOUS
    <3>3. QED  BY <1>4, <1>5, <3>1, <3>2
  <2>2. ASSUME Len(t) = Len(c), \A k \in DOMAIN t : t[k] = TextOf(c[k])
        PROVE  t = [k \in DOMAIN c |-> TextOf(c[k])]
    BY <1>5, <1>8, <2>2
  <2>3. QED  BY <2>1, <2>2
<1>11. QED  BY <1>9, <1>10 DEF t, c, name

\* The labels in the map have different names.
LEMMA MatchedOnce ==
    ASSUME SetupInv, NEW q, q.name \in Seq(Range(q.name)), q.sameCase \in BOOLEAN,
           NEW l \in labels, NEW m \in labels,
           Matches(l, CellsOf(q)), Matches(m, CellsOf(q))
    PROVE  l = m
<1>1. StartsName(l) /\ StartsName(m)
  BY LabelStartsName
<1>2. \A n \in {l, m} : q.name[1] = TextOf(n)
  <2> SUFFICES ASSUME NEW n \in {l, m} PROVE q.name[1] = TextOf(n)
    OBVIOUS
  <2>1. q.name = [k \in DOMAIN Chain(n) |-> TextOf(Chain(n)[k])]
    BY <1>1, MatchesMeans
  <2>2. Linked(Chain(n)) /\ Chain(n)[1] = n
    BY <1>1, ChainLinked
  <2>3. 1 \in DOMAIN Chain(n)
    <3>1. \A c : Linked(c) => 1 \in DOMAIN c
      BY DEF Linked
    <3>2. QED  BY <2>2, <3>1
  <2>4. QED  BY <2>1, <2>2, <2>3
<1>3. TextOf(l) = TextOf(m)
  BY <1>2
<1>4. \A n \in labels : n[1] = "instance" => \E k \in DOMAIN added : n = InstanceAt(k)
  BY DEF SetupInv, LabelsAt, Host, Service, Sub
<1>5. \A n : n[1] # "instance" => TextOf(n) = n
  BY DEF TextOf
<1>6. \A k : /\ InstanceAt(k)[1] = "instance"
             /\ TextOf(InstanceAt(k)) = <<"instance", added[k]>>
  BY DEF TextOf, InstanceAt
<1>7. CASE l[1] = "instance" /\ m[1] = "instance"
  <2>1. PICK j \in DOMAIN added : l = InstanceAt(j)
    BY <1>4, <1>7
  <2>2. PICK k \in DOMAIN added : m = InstanceAt(k)
    BY <1>4, <1>7
  <2>3. added[j] = added[k]
    BY <1>3, <1>6, <2>1, <2>2
  <2>4. QED  BY <2>1, <2>2, <2>3 DEF SetupInv
<1>8. CASE l[1] # "instance" \/ m[1] # "instance"
  <2>1. \A n \in labels : n[1] = "instance" => TextOf(n)[1] = "instance"
    BY <1>4, <1>6
  <2>2. QED  BY <1>3, <1>5, <1>8, <2>1
<1>9. QED  BY <1>7, <1>8

\* What matched() takes for one label is what belongs to it.
LEMMA OwnedAnswers ==
    ASSUME SetupInv, NEW l \in labels, NEW type
    PROVE  LET own   == {r \in Known : Owner(r) = l}
               right == {r \in own : Type(r) # "NSEC" /\ type \in {Type(r), "ANY"}}
           IN  MatchedAnswers(l, type) =
                  IF right # {} THEN right ELSE {r \in own : Type(r) = "NSEC"}
<1> DEFINE own   == {r \in Known : Owner(r) = l}
           right == {r \in own : Type(r) # "NSEC" /\ type \in {Type(r), "ANY"}}
           types == {r \in own : Type(r) = "NSEC"}
           all   == IF right # {} THEN right ELSE types
<1>1. \A j, k, x, s :
         /\ Host # InstanceAt(k) /\ Host # Service(s) /\ Host # Sub(x, s)
         /\ InstanceAt(k) # Service(s) /\ InstanceAt(k) # Sub(x, s) /\ Host[1] # "instance"
         /\ InstanceAt(j) = InstanceAt(k) => j = k
         /\ InstanceAt(k)[1] = "instance" /\ InstanceAt(k)[2] = k
         /\ Service(s)[1] # "instance" /\ Sub(x, s)[1] # "instance"
  BY DEF Host, InstanceAt, Service, Sub
<1>2. ToSet(records) = Known
  BY DEF SetupInv
<1>3. CASE l = Host
  <2>1. own = {HostA, HostNSEC}
    BY <1>1, <1>3, KnownIs, OwnerOf
  <2>2. types = {HostNSEC}
    BY <2>1, TypeOf
  <2>3. right = IF type \in {"A", "ANY"} THEN {HostA} ELSE {}
    BY <2>1, TypeOf
  <2>4. MatchedAnswers(l, type) = IF type \in {"A", "ANY"} THEN {HostA} ELSE {HostNSEC}
    BY <1>1, <1>3 DEF MatchedAnswers
  <2> HIDE DEF own, right, types
  <2>5. MatchedAnswers(l, type) = all
    BY <2>2, <2>3, <2>4
  <2>6. QED  BY <2>5 DEF own, right, types
<1>4. ASSUME NEW k \in DOMAIN added, l = InstanceAt(k)
      PROVE  MatchedAnswers(l, type) = all
  <2>1. own = {SRV(k), TXT(k), NSEC(k)}
    <3>1. {SRV(k), TXT(k), NSEC(k)} \subseteq own
      BY <1>4, KnownIs, OwnerOf
    <3>2. ASSUME NEW r \in own PROVE r \in {SRV(k), TXT(k), NSEC(k)}
      BY <1>1, <1>4, KnownIs, OwnerOf
    <3>3. QED  BY <3>1, <3>2
  <2>2. types = {NSEC(k)}
    BY <2>1, TypeOf
  <2>3. right = {r \in {SRV(k), TXT(k)} : type \in {Type(r), "ANY"}}
    BY <2>1, TypeOf
  <2>4. right = (IF type \in {"SRV", "ANY"} THEN {SRV(k)} ELSE {})
                   \cup (IF type \in {"TXT", "ANY"} THEN {TXT(k)} ELSE {})
    BY <2>3, TypeOf
  <2>5. MatchedAnswers(l, type) =
           CASE type = "SRV" -> {SRV(k)}
             [] type = "TXT" -> {TXT(k)}
             [] type = "ANY" -> {SRV(k), TXT(k)}
             [] OTHER        -> {NSEC(k)}
    <3>1. l # Host /\ l[1] = "instance" /\ l[2] = k
      BY <1>1, <1>4
    <3>2. QED  BY <3>1 DEF MatchedAnswers
  <2> HIDE DEF own, right, types
  <2>6. QED  BY <2>2, <2>4, <2>5
<1>5. ASSUME l # Host, \A k \in DOMAIN added : l # InstanceAt(k)
      PROVE  MatchedAnswers(l, type) = all
  <2>1. l[1] # "instance"
    BY <1>1, <1>5, LabelIs
  <2>2. own = {r \in Known : r[1] \in {"PTR", "subPTR"} /\ Owner(r) = l}
    <3>1. \A r \in own : r[1] \in {"PTR", "subPTR"}
      <4>1. \A k, x : PTR(k)[1] = "PTR" /\ SubPTR(k, x)[1] = "subPTR"
        BY DEF PTR, SubPTR
      <4>2. QED  BY <1>5, <4>1, KnownIs, OwnerOf
    <3>2. QED  BY <3>1
  <2>3. own = Pointers(l)
    BY <1>2, <2>2 DEF Pointers
  <2>4. \A r \in own : Type(r) = "PTR"
    BY <2>2 DEF Type
  <2>5. types = {} /\ right = IF type \in {"PTR", "ANY"} THEN own ELSE {}
    BY <2>4
  <2>6. MatchedAnswers(l, type) = IF type \in {"PTR", "ANY"} THEN Pointers(l) ELSE {}
    BY <1>5, <2>1 DEF MatchedAnswers
  <2> HIDE DEF own, right, types
  <2>7. QED  BY <2>3, <2>5, <2>6
<1>6. QED  BY <1>3, <1>4, <1>5

\* A question's answer is what the labels take for it.
LEMMA MatchedRight ==
    ASSUME SetupInv, NEW q, q.name \in Seq(Range(q.name)), q.sameCase \in BOOLEAN
    PROVE  UNION {MatchedAnswers(l, q.type) : l \in {m \in labels : Matches(m, CellsOf(q))}}
              = AnswerTo(q)
<1> DEFINE matched == {m \in labels : Matches(m, CellsOf(q))}
           name    == OfName(q)
           right   == {r \in name : Type(r) # "NSEC" /\ q.type \in {Type(r), "ANY"}}
           types   == {r \in name : Type(r) = "NSEC"}
<1>1. name = {r \in Known : Owner(r) \in matched}
  <2>1. name = {r \in Known :
                  /\ Owner(r) \in labels
                  /\ q.name = [k \in DOMAIN Chain(Owner(r)) |-> TextOf(Chain(Owner(r))[k])]
                  /\ q.sameCase \/ Owner(r)[1] # "instance"}
    BY DEF OfName, Published, SetupInv
  <2>2. \A r : Owner(r) \in labels =>
           (Matches(Owner(r), CellsOf(q)) <=>
              /\ q.name = [k \in DOMAIN Chain(Owner(r)) |-> TextOf(Chain(Owner(r))[k])]
              /\ q.sameCase \/ Owner(r)[1] # "instance")
    BY LabelStartsName, MatchesMeans
  <2>3. QED  BY <2>1, <2>2
<1>2. AnswerTo(q) = IF right # {} THEN right ELSE types
  BY DEF AnswerTo
<1>3. ASSUME matched = {}
      PROVE  UNION {MatchedAnswers(m, q.type) : m \in matched} = AnswerTo(q)
  <2>1. name = {}
    BY <1>1, <1>3
  <2>2. right = {} /\ types = {}
    BY <2>1
  <2> HIDE DEF matched, right, types
  <2>3. QED  BY <1>2, <1>3, <2>2
<1>4. ASSUME NEW l \in matched
      PROVE  UNION {MatchedAnswers(m, q.type) : m \in matched} = AnswerTo(q)
  <2>1. \A m \in matched : m = l
    BY MatchedOnce
  <2>2. l \in labels
    OBVIOUS
  <2> HIDE DEF matched
  <2>3. matched = {l}
    BY <2>1
  <2>4. name = {r \in Known : Owner(r) = l}
    BY <1>1, <2>3
  <2>5. UNION {MatchedAnswers(m, q.type) : m \in matched} = MatchedAnswers(l, q.type)
    BY <2>3
  <2> DEFINE own == {r \in Known : Owner(r) = l}
             ownRight == {r \in own : Type(r) # "NSEC" /\ q.type \in {Type(r), "ANY"}}
             ownTypes == {r \in own : Type(r) = "NSEC"}
  <2>6. MatchedAnswers(l, q.type) = IF ownRight # {} THEN ownRight ELSE ownTypes
    BY <2>2, OwnedAnswers
  <2>7. name = own /\ right = ownRight /\ types = ownTypes
    BY <2>4
  <2> HIDE DEF name, own, right, ownRight, types, ownTypes
  <2>8. QED  BY <1>2, <2>5, <2>6, <2>7
<1>5. QED  BY <1>3, <1>4

\* What they take are records, with those asked for next.
LEMMA MatchedFound ==
    ASSUME SetupInv, NEW l \in labels, NEW type
    PROVE  LET found == MatchedAnswers(l, type) \cup MatchedAdditionals(l, type)
           IN  found \subseteq Known /\ Closed(found)
<1> DEFINE found == MatchedAnswers(l, type) \cup MatchedAdditionals(l, type)
<1>1. \A k, x : /\ PTR(k)[2] = k /\ SRV(k)[2] = k /\ TXT(k)[2] = k
                /\ SubPTR(k, x)[2] = k
  BY DEF PTR, SRV, TXT, SubPTR
<1>2. CASE l = Host
  <2>1. found \subseteq {HostA, HostNSEC}
    <3>1. l[1] # "instance"
      BY <1>2 DEF Host
    <3>2. QED  BY <1>2, <3>1 DEF MatchedAnswers, MatchedAdditionals
  <2> HIDE DEF found
  <2>2. found \subseteq Known /\ Closed(found)
    BY <2>1, KnownIs, TypeOf DEF Closed
  <2>3. QED  BY <2>2 DEF found
<1>3. ASSUME NEW k \in DOMAIN added, l = InstanceAt(k)
      PROVE  found \subseteq Known /\ Closed(found)
  <2>1. l # Host /\ l[1] = "instance" /\ l[2] = k
    BY <1>3 DEF InstanceAt, Host
  <2>2. found = {SRV(k), TXT(k), NSEC(k), HostA} \/ found = {NSEC(k)}
    BY <2>1 DEF MatchedAnswers, MatchedAdditionals
  <2> HIDE DEF found
  <2>3. found \subseteq Known
    BY <1>3, <2>2, KnownIs
  <2>4. Closed(found)
    BY <1>1, <2>2, TypeOf DEF Closed
  <2>5. QED  BY <2>3, <2>4
<1>4. ASSUME l # Host, l[1] # "instance"
      PROVE  found \subseteq Known /\ Closed(found)
  <2> DEFINE next == UNION {{SRV(r[2]), TXT(r[2])} : r \in Pointers(l)}
  <2>1. found = Pointers(l) \cup {HostA} \cup next \/ found = {}
    BY <1>4 DEF MatchedAnswers, MatchedAdditionals
  <2>2. \A r \in Pointers(l) : r \in Known /\ \E k \in DOMAIN added : r[2] = k
    <3>1. Pointers(l) \subseteq Known /\ \A r \in Pointers(l) : r[1] \in {"PTR", "subPTR"}
      BY DEF Pointers, SetupInv
    <3>2. HostA[1] = "A" /\ HostNSEC[1] = "hostNSEC"
             /\ \A k : NSEC(k)[1] = "NSEC"
      BY DEF HostA, HostNSEC, NSEC
    <3>3. \A r \in Known : r[1] \in {"PTR", "subPTR"} => \E k \in DOMAIN added : r[2] = k
      BY <1>1, <3>2, KnownIs
    <3>4. QED  BY <3>1, <3>3
  <2>3. next \subseteq Known
    BY <2>2, KnownIs
  <2>4. \A r \in next : \E p \in Pointers(l) : r[2] = p[2]
    BY <1>1
  <2>5. \A r \in Pointers(l) : {SRV(r[2]), TXT(r[2])} \subseteq next
    OBVIOUS
  <2> HIDE DEF found, next
  <2>6. found \subseteq Known
    BY <2>1, <2>2, <2>3, KnownIs
  <2>7. Closed(found)
    <3>1. \A r \in Pointers(l) \cup next : {SRV(r[2]), TXT(r[2])} \subseteq next
      BY <2>4, <2>5
    <3>2. QED  BY <2>1, <3>1, TypeOf DEF Closed
  <2>8. QED  BY <2>6, <2>7
<1>5. QED
  <2>1. l = Host \/ (\E k \in DOMAIN added : l = InstanceAt(k)) \/ (l # Host /\ l[1] # "instance")
    BY LabelIs
  <2>2. QED  BY <1>2, <1>3, <1>4, <2>1

----------------------------------------------------------------------------
(* Steps.                                                                  *)

\* The actions by what they leave alone.
LEMMA NextCases ==
    ASSUME [Next]_vars
    PROVE  \/ \E i \in Instance : AddService(i)
           \/ begin
           \/ \E packet \in Packets : Receive(packet)
           \/ MatchQuestion \/ WriteHeader \/ WriteNext \/ EndSection \/ Reset
           \/ UNCHANGED vars
BY DEF Next, processQueries

\* After begin() labels and records stay.
LEMMA SetupUnchanged ==
    ASSUME [Next]_vars, \A i \in Instance : ~AddService(i)
    PROVE  UNCHANGED setup
BY NextCases DEF begin, Receive, MatchQuestion, WriteHeader, WriteNext, EndSection, Reset,
                 setup, vars

\* The parts of the invariant that concern set-up and control.
LEMMA SetupStep ==
    ASSUME SetupInv, [Next]_vars
    PROVE  SetupInv'
<1>1. CASE \E i \in Instance : AddService(i)
  BY <1>1, AddServiceSetup
<1>2. CASE \A i \in Instance : ~AddService(i)
  BY <1>2, SetupUnchanged, SetupKept
<1>3. QED  BY <1>1, <1>2

\* A packet with no question is well written.
LEMMA NoPacketWritten == WellWritten(NoPacket)
<1>1. NoPacket.questions = <<>> /\ NoPacket.cells = <<>> /\ NoPacket.names = <<>>
         /\ NoPacket.starts = <<1>> /\ NoPacket.qdcount = 0
  BY DEF NoPacket
<1>2. \A S : <<>> \in Seq(S) /\ Len(<<>>) = 0 /\ DOMAIN <<>> = {}
  OBVIOUS
<1>3. <<>> \in [DOMAIN <<>> -> Seq(Range(<<>>))]
  OBVIOUS
<1>4. <<1>> \in Seq(1..1) /\ Len(<<1>>) = 1 /\ <<1>>[1] = 1
  OBVIOUS
<1>5. QED  BY <1>1, <1>2, <1>3, <1>4 DEF WellWritten

LEMMA PhaseStep ==
    ASSUME PhaseInv, [Next]_vars
    PROVE  PhaseInv'
<1> USE DEF PhaseInv, setup, query, written
<1>1. ASSUME NEW i \in Instance, AddService(i) PROVE PhaseInv'
  BY <1>1 DEF AddService
<1>2. CASE begin
  BY <1>2 DEF begin
<1>3. ASSUME NEW packet \in Packets, Receive(packet) PROVE PhaseInv'
  BY <1>3 DEF Receive
<1>4. CASE MatchQuestion
  BY <1>4 DEF MatchQuestion
<1>5. CASE WriteHeader
  BY <1>5 DEF WriteHeader
<1>6. CASE WriteNext
  BY <1>6 DEF WriteNext
<1>7. CASE EndSection
  BY <1>7 DEF EndSection
<1>8. CASE Reset
  BY <1>8 DEF Reset
<1>9. CASE UNCHANGED vars
  BY <1>9 DEF vars
<1>10. QED
  BY <1>1, <1>2, <1>3, <1>4, <1>5, <1>6, <1>7, <1>8, <1>9, NextCases

\* What a question asks for depends on labels and records only.
LEMMA AnswersUnchanged ==
    ASSUME UNCHANGED setup
    PROVE  \A q : AnswerTo(q)' = AnswerTo(q)
<1>1. added' = added /\ labels' = labels /\ records' = records
  BY DEF setup
<1>2. \A r : Owner(r)' = Owner(r)
  BY <1>1 DEF Owner, ServiceAt
<1>3. \A l : Chain(l)' = Chain(l)
  BY <1>1 DEF Chain, ServiceAt
<1>4. \A l : TextOf(l)' = TextOf(l)
  BY <1>1 DEF TextOf
<1>5. Published' = Published
  BY <1>1, <1>2 DEF Published
<1>6. \A q : OfName(q)' = OfName(q)
  BY <1>2, <1>3, <1>4, <1>5 DEF OfName
<1>7. QED  BY <1>6 DEF AnswerTo

\* One question more is answered.
LEMMA MatchQuestionAnswers ==
    ASSUME SetupInv, PhaseInv, ReadInv, FoundInv, MatchQuestion
    PROVE  ReadInv' /\ FoundInv'
<1> SUFFICES ASSUME NEW n, n = Len(asked.questions) - left + 1
             PROVE  ReadInv' /\ FoundInv'
  OBVIOUS
<1> DEFINE q       == asked.questions[n]
           matched == {l \in labels : Matches(l, CellsOf(q))}
           MoreAdditionals == UNION {MatchedAdditionals(l, q.type) : l \in matched}
<1>1. /\ pc = "match" /\ pc' = "match" /\ left > 0 /\ left' = left - 1
      /\ UNCHANGED setup /\ incoming' = incoming /\ asked' = asked
  BY DEF MatchQuestion
<1>2. /\ WellWritten(asked) /\ left \in 0..Len(asked.questions) /\ incoming = asked.cells
      /\ readOffset = asked.starts[n]
      /\ answer = UNION {AnswerTo(asked.questions[m]) : m \in 1..(n - 1)}
  BY <1>1 DEF ReadInv
<1>3. /\ asked.questions \in Seq(Range(asked.questions))
      /\ \A m \in DOMAIN asked.questions :
            LET p == asked.questions[m]
            IN  p.name \in Seq(Range(p.name)) /\ p.sameCase \in BOOLEAN
  BY <1>2 DEF WellWritten
<1>4. /\ Len(asked.questions) \in Nat /\ n \in 1..Len(asked.questions)
      /\ n \in DOMAIN asked.questions
  BY <1>1, <1>2, <1>3
<1>5. /\ NameRead[readOffset] = CellsOf(q)
      /\ AfterName(readOffset) + 1 = asked.starts[n + 1]
      /\ incoming[AfterName(readOffset)].type = q.type
  BY <1>2, <1>4, NameReadIs, AfterNameIs
<1>6. /\ answer' = answer \cup UNION {MatchedAnswers(l, q.type) : l \in matched}
      /\ additional' = additional \cup MoreAdditionals
      /\ readOffset' = asked.starts[n + 1]
  BY <1>5 DEF MatchQuestion
<1>7. UNION {MatchedAnswers(l, q.type) : l \in matched} = AnswerTo(q)
  BY <1>3, <1>4, MatchedRight
<1>8. \A l \in matched :
         LET found == MatchedAnswers(l, q.type) \cup MatchedAdditionals(l, q.type)
         IN  found \subseteq Known /\ Closed(found)
  BY MatchedFound
<1>9. ReadInv'
  <2>1. /\ Len(asked'.questions) - left' = n
        /\ left' \in 0..Len(asked.questions)
    BY <1>1, <1>2, <1>4
  <2>2. answer' = UNION {AnswerTo(asked.questions[m]) : m \in 1..n}
    <3>1. answer' = (UNION {AnswerTo(asked.questions[m]) : m \in 1..(n - 1)}) \cup AnswerTo(q)
      BY <1>2, <1>6, <1>7
    <3>2. 1..n = 1..(n - 1) \cup {n}
      BY <1>4
    <3>3. QED  BY <3>1, <3>2
  <2>3. answer' = UNION {AnswerTo(asked.questions[m])' : m \in 1..n}
    <3>1. \A m : AnswerTo(asked.questions[m])' = AnswerTo(asked.questions[m])
      BY <1>1, AnswersUnchanged
    <3>2. QED  BY <2>2, <3>1
  <2>4. WellWritten(asked)'
    BY <1>1, <1>2
  <2>5. readOffset' = asked'.starts[Len(asked'.questions) - left' + 1]
    BY <1>1, <1>6, <2>1
  <2>6. incoming' = asked'.cells
    BY <1>1, <1>2
  <2>7. answer' = UNION {AnswerTo(asked.questions[m])' : m \in 1..(Len(asked'.questions) - left')}
    BY <2>1, <2>3
  <2>8. QED  BY <1>1, <2>1, <2>4, <2>5, <2>6, <2>7 DEF ReadInv
<1>10. FoundInv'
  <2> DEFINE found(l) == MatchedAnswers(l, q.type) \cup MatchedAdditionals(l, q.type)
  <2>1. answer' \cup additional' = (answer \cup additional) \cup UNION {found(l) : l \in matched}
    BY <1>6
  <2>2. \A l \in matched : found(l) \subseteq Known /\ Closed(found(l))
    BY <1>8
  <2>3. Known' = Known
    BY <1>1 DEF Known, RecordsAt, setup
  <2> DEFINE old == answer \cup additional
             all == old \cup UNION {found(l) : l \in matched}
  <2> HIDE DEF found, matched
  <2>4. old \subseteq Known /\ Closed(old)
    BY DEF FoundInv
  <2>5. all \subseteq Known
    BY <2>2, <2>4
  <2>6. Closed(all)
    <3> SUFFICES ASSUME NEW r \in all, Type(r) \in {"PTR", "SRV", "TXT"}
                 PROVE  {SRV(r[2]), TXT(r[2]), HostA} \subseteq all
      BY DEF Closed
    <3>1. CASE r \in old
      BY <2>4, <3>1 DEF Closed
    <3>2. ASSUME NEW l \in matched, r \in found(l)
          PROVE  {SRV(r[2]), TXT(r[2]), HostA} \subseteq all
      BY <2>2, <3>2 DEF Closed
    <3>3. QED  BY <3>1, <3>2
  <2>7. QED
    <3>1. answer' \cup additional' = all
      BY <2>1
    <3> HIDE DEF all
    <3>2. Closed(answer' \cup additional')
      BY <2>6, <3>1
    <3>3. QED  BY <2>3, <2>5, <3>1, <3>2 DEF FoundInv, Closed
<1>11. QED  BY <1>9, <1>10

\* No step makes the answers others than those asked for.
LEMMA ReadStep ==
    ASSUME SetupInv, PhaseInv, ReadInv, FoundInv, [Next]_vars
    PROVE  ReadInv' /\ FoundInv'
<1>1. ASSUME \A i \in Instance : ~AddService(i),
             answer' = answer, additional' = additional
      PROVE  FoundInv'
  <2>1. Known' = Known
    BY <1>1, SetupUnchanged DEF Known, RecordsAt, setup
  <2>2. Closed(answer' \cup additional')
    BY <1>1 DEF FoundInv
  <2>3. QED  BY <1>1, <2>1, <2>2 DEF FoundInv, Closed
<1>2. ASSUME \A i \in Instance : ~AddService(i), pc # "match", pc' # "match",
             UNCHANGED <<left, asked, answer>>
      PROVE  ReadInv'
  <2>1. \A q : AnswerTo(q)' = AnswerTo(q)
    BY <1>2, SetupUnchanged, AnswersUnchanged
  <2>2. \A n : AnswerTo(asked.questions[n])' = AnswerTo(asked.questions[n])
    BY <1>2, <2>1
  <2>3. QED  BY <1>2, <2>2 DEF ReadInv
<1>3. NoPacket.questions = <<>> /\ Len(<<>>) = 0 /\ 1..(0 - 0) = {}
  BY DEF NoPacket
<1>4. ASSUME NEW i \in Instance, AddService(i) PROVE ReadInv' /\ FoundInv'
  <2>1. /\ pc = "setup" /\ pc' = "setup" /\ left' = left /\ asked' = asked
        /\ answer' = answer /\ additional' = additional
    BY <1>4 DEF AddService, query
  <2>2. asked = NoPacket /\ left = 0 /\ answer = {} /\ additional = {}
    BY <2>1 DEF PhaseInv
  <2>3. ReadInv'
    BY <1>3, <2>1, <2>2, NoPacketWritten DEF ReadInv
  <2>4. FoundInv'
    BY <2>1, <2>2 DEF FoundInv, Closed
  <2>5. QED  BY <2>3, <2>4
<1>5. CASE begin
  <2>1. \A i \in Instance : ~AddService(i)
    BY <1>5 DEF begin, AddService
  <2>2. QED  BY <1>1, <1>2, <1>5, <2>1 DEF begin, query
<1>6. ASSUME NEW packet \in Packets, Receive(packet) PROVE ReadInv' /\ FoundInv'
  <2>1. /\ pc = "idle" /\ pc' = "match" /\ incoming' = packet.cells /\ readOffset' = 1
        /\ left' = packet.qdcount /\ asked' = packet
        /\ answer' = answer /\ additional' = additional
    BY <1>6 DEF Receive
  <2>2. WellWritten(packet)
    BY PacketAssumption
  <2>3. /\ packet.questions \in Seq(Range(packet.questions))
        /\ packet.qdcount = Len(packet.questions) /\ packet.starts[1] = 1
    BY <2>2 DEF WellWritten
  <2>4. Len(packet.questions) \in Nat
    BY <2>3
  <2> DEFINE n == Len(packet.questions)
  <2>5. 1..(n - n) = {} /\ n \in 0..n /\ n - n + 1 = 1
    BY <2>4
  <2>6. answer = {}
    BY <2>1 DEF PhaseInv
  <2>7. left' = n /\ asked' = packet /\ n = Len(asked'.questions)
    BY <2>1, <2>3
  <2>9. answer' = UNION {AnswerTo(asked.questions[m])' : m \in 1..(Len(asked'.questions) - left')}
    <3>1. Len(asked'.questions) - left' = n - n
      BY <2>7
    <3> HIDE DEF n
    <3>2. QED  BY <2>1, <2>5, <2>6, <3>1
  <2>10. readOffset' = asked'.starts[Len(asked'.questions) - left' + 1]
    BY <2>1, <2>3, <2>5, <2>7
  <2>11. ReadInv'
    BY <2>1, <2>2, <2>5, <2>7, <2>9, <2>10 DEF ReadInv
  <2>12. \A i \in Instance : ~AddService(i)
    BY <2>1 DEF AddService
  <2>13. QED  BY <1>1, <2>1, <2>11, <2>12
<1>7. CASE MatchQuestion
  BY <1>7, MatchQuestionAnswers
<1>8. CASE WriteHeader
  <2>1. /\ \A i \in Instance : ~AddService(i)
        /\ pc = "match" /\ pc' # "match" /\ UNCHANGED <<left, asked, answer, additional>>
    BY <1>8 DEF WriteHeader, AddService
  <2>2. \A q : AnswerTo(q)' = AnswerTo(q)
    BY <2>1, SetupUnchanged, AnswersUnchanged
  <2>3. \A n : AnswerTo(asked.questions[n])' = AnswerTo(asked.questions[n])
    BY <2>1, <2>2
  <2>4. ReadInv'
    BY <2>1, <2>3 DEF ReadInv
  <2>5. QED  BY <1>1, <2>1, <2>4
<1>9. CASE WriteNext
  <2>1. \A i \in Instance : ~AddService(i)
    BY <1>9 DEF WriteNext, AddService
  <2>2. pc # "match" /\ pc' # "match" /\ UNCHANGED <<left, asked, answer, additional>>
    BY <1>9 DEF WriteNext, query
  <2>3. QED  BY <1>1, <1>2, <2>1, <2>2
<1>10. CASE EndSection
  <2>1. \A i \in Instance : ~AddService(i)
    BY <1>10 DEF EndSection, AddService
  <2>2. pc # "match" /\ pc' # "match" /\ UNCHANGED <<left, asked, answer, additional>>
    BY <1>10 DEF EndSection, query
  <2>3. QED  BY <1>1, <1>2, <2>1, <2>2
<1>11. CASE Reset
  <2>1. /\ pc = "reset" /\ pc' = "idle" /\ left' = left /\ asked' = NoPacket
        /\ answer' = {} /\ additional' = {}
    BY <1>11 DEF Reset
  <2>2. left = 0
    BY <2>1 DEF PhaseInv
  <2>3. ReadInv'
    BY <1>3, <2>1, <2>2, NoPacketWritten DEF ReadInv
  <2>4. FoundInv'
    BY <2>1 DEF FoundInv, Closed
  <2>5. QED  BY <2>3, <2>4
<1>12. CASE UNCHANGED vars
  <2>1. UNCHANGED setup /\ UNCHANGED <<incoming, readOffset, left, asked, answer, additional, pc>>
    BY <1>12 DEF vars, setup
  <2>2. \A q : AnswerTo(q)' = AnswerTo(q)
    BY <2>1, AnswersUnchanged
  <2>3. \A n : AnswerTo(asked.questions[n])' = AnswerTo(asked.questions[n])
    BY <2>1, <2>2
  <2>4. ReadInv'
    BY <2>1, <2>3 DEF ReadInv
  <2>5. Known' = Known
    BY <2>1 DEF Known, RecordsAt, setup
  <2>6. Closed(answer' \cup additional')
    BY <2>1 DEF FoundInv
  <2>7. FoundInv'
    BY <2>1, <2>5, <2>6 DEF FoundInv, Closed
  <2>8. QED  BY <2>4, <2>7
<1>13. QED
  BY <1>4, <1>5, <1>6, <1>7, <1>8, <1>9, <1>10, <1>11, <1>12, NextCases

----------------------------------------------------------------------------
(* Writing the sections.                                                   *)

\* The next record is one of the section that is not written yet.
LEMMA WriteNextIs ==
    ASSUME SetupInv, WriteNext
    PROVE  \E r \in Known :
              /\ r \in InSection(pc)
              /\ \A e \in ToSet(entries) : e.section = pc => e.record # r
              /\ WriteRecord(r)
<1> DEFINE n == Min(Due(pc))
<1>1. records \in Seq(Known) /\ ToSet(records) = Known
  BY DEF SetupInv
<1>2. Due(pc) # {} /\ Due(pc) \subseteq DOMAIN records
  BY DEF WriteNext, Due
<1>3. Due(pc) \subseteq Nat
  BY <1>1, <1>2
<1>4. n \in Due(pc)
  BY <1>2, <1>3, LeastOf
<1>5. WriteRecord(records[n])
  BY DEF WriteNext
<1> HIDE DEF n
<1>6. records[n] \in Known
  BY <1>1, <1>2, <1>4 DEF ToSet
<1>7. /\ records[n] \in InSection(pc)
      /\ \A e \in ToSet(entries) : e.section = pc => e.record # records[n]
  BY <1>4 DEF Due
<1>8. QED  BY <1>5, <1>6, <1>7

\* A section ends when all its records are written.
LEMMA NoneDue ==
    ASSUME SetupInv, FoundInv, Due(pc) = {}, pc \in {"answers", "additionals"}
    PROVE  InSection(pc) \subseteq There
<1>1. ToSet(records) = Known /\ answer \cup additional \subseteq Known
  BY DEF SetupInv, FoundInv
<1>2. InSection(pc) \subseteq answer \cup additional
  BY DEF InSection
<1>3. SUFFICES ASSUME NEW r \in InSection(pc), r \notin There
               PROVE  FALSE
  OBVIOUS
<1>4. PICK n \in DOMAIN records : records[n] = r
  BY <1>1, <1>2 DEF ToSet
<1>5. r \notin {e.record : e \in {x \in ToSet(entries) : x.section = pc}}
  BY <1>3 DEF There
<1>6. n \in Due(pc)
  BY <1>4, <1>5 DEF Due
<1>7. QED  BY <1>6

\* The list of what is written grows at its end.
LEMMA EntryAppended ==
    ASSUME EntriesInv, NEW e, entries' = Append(entries, e)
    PROVE  /\ entries' \in Seq(ToSet(entries')) /\ Len(entries) \in Nat
           /\ ToSet(entries') = ToSet(entries) \cup {e}
           /\ entries'[Len(entries) + 1] = e
           /\ \A n \in 1..Len(entries) : n \in DOMAIN entries /\ entries'[n] = entries[n]
           /\ DOMAIN entries' = 1..(Len(entries) + 1)
<1>1. SUFFICES ASSUME NEW S, S = ToSet(entries), NEW s, s = entries, NEW t, t = entries'
               PROVE  /\ t \in Seq(ToSet(t)) /\ Len(s) \in Nat
                      /\ ToSet(t) = ToSet(s) \cup {e}
                      /\ t[Len(s) + 1] = e
                      /\ \A n \in 1..Len(s) : n \in DOMAIN s /\ t[n] = s[n]
                      /\ DOMAIN t = 1..(Len(s) + 1)
  OBVIOUS
<1>2. s \in Seq(S) /\ t = Append(s, e) /\ S = ToSet(s)
  BY <1>1 DEF EntriesInv
<1>3. t \in Seq(S \cup {e})
  BY <1>2, AppendIs
<1>4. DOMAIN t = 1..(Len(s) + 1) /\ Len(s) \in Nat
  BY <1>2, AppendIs
<1>5. t[Len(s) + 1] = e
  BY <1>2, AppendIs
<1>6. \A n \in 1..Len(s) : n \in DOMAIN s /\ t[n] = s[n]
  BY <1>2, AppendIs
<1>7. ToSet(t) = ToSet(s) \cup {e}
  <2>1. DOMAIN s = 1..Len(s)
    BY <1>2
  <2>2. \A n \in DOMAIN t : t[n] \in ToSet(s) \cup {e}
    <3> SUFFICES ASSUME NEW n \in DOMAIN t PROVE t[n] \in ToSet(s) \cup {e}
      OBVIOUS
    <3>1. n = Len(s) + 1 \/ n \in 1..Len(s)
      BY <1>4
    <3>2. CASE n \in 1..Len(s)
      BY <1>6, <3>2 DEF ToSet
    <3>3. QED  BY <1>5, <3>1, <3>2
  <2>3. \A n \in DOMAIN s : n \in DOMAIN t /\ s[n] = t[n]
    BY <1>4, <1>6, <2>1
  <2>4. Len(s) + 1 \in DOMAIN t /\ t[Len(s) + 1] = e
    BY <1>4, <1>5
  <2>5. QED  BY <2>2, <2>3, <2>4 DEF ToSet
<1>8. QED  BY <1>2, <1>3, <1>4, <1>5, <1>6, <1>7

\* No step writes a record twice or leaves one out.
LEMMA EntriesStep ==
    ASSUME SetupInv, PhaseInv, FoundInv, EntriesInv, [Next]_vars
    PROVE  EntriesInv'
<1>1. <<>> \in Seq(ToSet(<<>>)) /\ ToSet(<<>>) = {} /\ DOMAIN <<>> = {}
  BY DEF ToSet
<1>2. ASSUME entries' = <<>>, pc' \in {"additionals", "reset"} => answer' = {}
      PROVE  EntriesInv'
  BY <1>1, <1>2 DEF EntriesInv
<1>3. ASSUME NEW i \in Instance, AddService(i) PROVE EntriesInv'
  <2>1. entries' = entries /\ pc = "setup" /\ pc' = "setup"
    BY <1>3 DEF AddService, written
  <2>2. QED  BY <1>2, <2>1 DEF PhaseInv
<1>4. CASE begin
  <2>1. entries' = entries /\ pc = "setup" /\ pc' = "idle"
    BY <1>4 DEF begin, written
  <2>2. QED  BY <1>2, <2>1 DEF PhaseInv
<1>5. ASSUME NEW packet \in Packets, Receive(packet) PROVE EntriesInv'
  <2>1. entries' = entries /\ pc = "idle" /\ pc' = "match"
    BY <1>5 DEF Receive, written
  <2>2. QED  BY <1>2, <2>1 DEF PhaseInv
<1>6. CASE MatchQuestion
  <2>1. entries' = entries /\ pc = "match" /\ pc' = "match"
    BY <1>6 DEF MatchQuestion, written
  <2>2. QED  BY <1>2, <2>1 DEF PhaseInv
<1>7. CASE WriteHeader
  <2>1. /\ entries' = entries /\ pc = "match" /\ answer' = answer
        /\ pc' = IF answer # {} THEN "answers" ELSE "reset"
    BY <1>7 DEF WriteHeader
  <2>2. QED  BY <1>2, <2>1 DEF PhaseInv
<1>8. CASE WriteNext
  <2>1. PICK r \in Known :
           /\ r \in InSection(pc)
           /\ \A e \in ToSet(entries) : e.section = pc => e.record # r
           /\ WriteRecord(r)
    BY <1>8, WriteNextIs
  <2>2. /\ pc \in {"answers", "additionals"}
        /\ UNCHANGED <<pc, answer, additional>>
    BY <1>8 DEF WriteNext
  <2>3. PICK x : x.record = r /\ x.section = pc /\ entries' = Append(entries, x)
    BY <2>1 DEF WriteRecord
  <2>4. /\ entries' \in Seq(ToSet(entries')) /\ Len(entries) \in Nat
        /\ ToSet(entries') = ToSet(entries) \cup {x}
        /\ entries'[Len(entries) + 1] = x
        /\ \A n \in 1..Len(entries) : n \in DOMAIN entries /\ entries'[n] = entries[n]
        /\ DOMAIN entries' = 1..(Len(entries) + 1)
    BY <2>3, EntryAppended
  <2>5. /\ pc = "answers" => r \in answer
        /\ pc = "additionals" => r \in additional \ answer
    BY <2>1, <2>2 DEF InSection
  <2>6. \A e \in ToSet(entries') :
           \/ e.section = "answers" /\ e.record \in answer
           \/ e.section = "additionals" /\ e.record \in additional \ answer /\ pc # "answers"
    BY <2>2, <2>3, <2>4, <2>5 DEF EntriesInv
  <2>7. \A e \in ToSet(entries) : e.record # r
    BY <2>1, <2>2, <2>5 DEF EntriesInv
  <2>8. \A n \in 1..Len(entries) : entries[n].record # r
    BY <2>4, <2>7 DEF ToSet
  <2>9. \A m, n \in DOMAIN entries' : entries'[m].record = entries'[n].record => m = n
    <3> SUFFICES ASSUME NEW m \in DOMAIN entries', NEW n \in DOMAIN entries',
                        entries'[m].record = entries'[n].record
                 PROVE  m = n
      OBVIOUS
    <3>1. /\ m \in 1..Len(entries) \/ m = Len(entries) + 1
          /\ n \in 1..Len(entries) \/ n = Len(entries) + 1
      BY <2>4
    <3>2. CASE m \in 1..Len(entries) /\ n \in 1..Len(entries)
      BY <2>4, <3>2 DEF EntriesInv
    <3>3. CASE m \notin 1..Len(entries) \/ n \notin 1..Len(entries)
      BY <2>3, <2>4, <2>8, <3>1, <3>3
    <3>4. QED  BY <3>2, <3>3
  <2>10. There \subseteq There'
    BY <2>4 DEF There
  <2>11. pc' \in {"additionals", "reset"} => answer' \subseteq There'
    BY <2>2, <2>10 DEF EntriesInv
  <2>12. pc' # "reset" /\ UNCHANGED <<pc, answer, additional>>
    BY <2>2
  <2>13. entries' \in Seq(ToSet(entries'))
    BY <2>4
  <2>14. QED  BY <2>6, <2>9, <2>11, <2>12, <2>13 DEF EntriesInv
<1>9. CASE EndSection
  <2>1. /\ pc \in {"answers", "additionals"} /\ Due(pc) = {}
        /\ pc' = IF pc = "answers" THEN "additionals" ELSE "reset"
        /\ UNCHANGED <<answer, additional, entries>>
    BY <1>9 DEF EndSection, written
  <2>2. InSection(pc) \subseteq There
    BY <2>1, NoneDue
  <2>3. /\ pc = "answers" => answer \subseteq There
        /\ pc = "additionals" => additional \ answer \subseteq There
    BY <2>2 DEF InSection
  <2>4. answer \subseteq There /\ (pc = "additionals" => additional \subseteq There)
    BY <2>1, <2>3 DEF EntriesInv
  <2>5. There' = There /\ pc' # "answers"
    BY <2>1 DEF There
  <2>6. QED  BY <2>1, <2>4, <2>5 DEF EntriesInv
<1>10. CASE Reset
  BY <1>2, <1>10 DEF Reset
<1>11. CASE UNCHANGED vars
  BY <1>11 DEF vars, EntriesInv, There
<1>12. QED
  BY <1>3, <1>4, <1>5, <1>6, <1>7, <1>8, <1>9, <1>10, <1>11, NextCases

\* The labels of a record's name and of the name in its data.
LEMMA RecordLabels ==
    ASSUME SetupInv, NEW r \in Known
    PROVE  IsRecord(r) /\ ToSet(Chain(Owner(r))) \cup DataLabels(r) \subseteq Labels
<1>1. IsRecord(r)
  BY KnownIs DEF IsRecord
<1>2. \A l \in labels : ToSet(Chain(l)) \subseteq Labels
  BY DEF Labels
<1>3. \A k \in DOMAIN added : ToSet(Chain(InstanceAt(k))) \subseteq Labels
  BY DEF Labels
<1>4. Host \in labels
  BY DEF SetupInv
<1>5. \A k \in DOMAIN added : Service(ServiceAt(k)) \in labels
  BY DEF SetupInv, LabelsAt, Service, InstanceAt
<1>6. \A k \in DOMAIN added : \A x \in Range(SubsOf[added[k]]) : Sub(x, ServiceAt(k)) \in labels
  BY DEF SetupInv, LabelsAt, Sub, InstanceAt
<1>7. Owner(r) \in labels \/ \E k \in DOMAIN added : Owner(r) = InstanceAt(k)
  BY <1>4, <1>5, <1>6, KnownIs, OwnerOf
<1>8. r \in {HostA, HostNSEC} \/ \E k \in DOMAIN added : r[2] = k
  BY KnownIs DEF PTR, SRV, TXT, NSEC, SubPTR
<1>9. DataLabels(r) \subseteq Labels
  BY <1>2, <1>3, <1>4, <1>8 DEF DataLabels
<1>10. QED  BY <1>1, <1>2, <1>3, <1>7, <1>9

----------------------------------------------------------------------------
(* Writing a record.                                                       *)

\* The buffer and the labels' offsets after it, and its entry.
LEMMA RecordStep ==
    ASSUME SetupInv, WriteInv, WriteNext
    PROVE  \E e :
              /\ e.record \in Known /\ entries' = Append(entries, e)
              /\ Wrote(Writing, Writing', Labels) /\ UNCHANGED setup
              /\ Fits' => Fits /\ e.length = e.end - e.data
              /\ Fits' /\ Readable(Writing) =>
                    Kept(Writing, Writing') /\ EntryReads(e, Writing')
<1>1. PICK r \in Known : WriteRecord(r)
  BY WriteNextIs
<1> DEFINE w    == Writing
           data == Skip(WriteName(Owner(r), w), 10)
           end  == WriteData(r, data)
           e    == [record |-> r, section |-> pc, name |-> offset, data |-> data.at,
                    length |-> DataLength(r, data), end |-> end.at]
<1>2. /\ writeOffset' = end.offsets /\ image' = end.image /\ offset' = end.at
      /\ entries' = Append(entries, e)
  BY <1>1 DEF WriteRecord, Writing
<1>3. IsRecord(r) /\ ToSet(Chain(Owner(r))) \cup DataLabels(r) \subseteq Labels
  BY RecordLabels
<1>4. Within(w)
  BY DEF WriteInv
<1>5. /\ Wrote(w, end, ToSet(Chain(Owner(r))) \cup DataLabels(r))
      /\ end.at < BUFFER_SIZE => DataLength(r, data) = end.at - data.at
      /\ end.at < BUFFER_SIZE /\ Readable(w) =>
            /\ Kept(w, end) /\ Starts(w.at, Owner(r), end)
            /\ DataReads(r, data.at, end)
  BY <1>3, <1>4, RecordWritten
<1>6. /\ e.record = r /\ e.name = w.at /\ e.data = data.at
      /\ e.length = DataLength(r, data) /\ e.end = end.at /\ w.at = offset
  BY DEF Writing
<1> HIDE DEF data, end, e
<1>7. /\ Writing'.at = end.at /\ Writing'.offsets = end.offsets /\ Writing'.image = end.image
  BY <1>2 DEF Writing
<1>8. Wrote(Writing, Writing', Labels)
  BY <1>3, <1>5, <1>7 DEF Wrote, Within
<1>9. UNCHANGED setup
  BY DEF WriteNext
<1>10. Fits' => Fits
  <2>1. w.at <= end.at /\ w.at \in Nat /\ end.at \in Nat /\ BUFFER_SIZE \in Nat
    BY <1>4, <1>5, SizeAssumption DEF Wrote, Within
  <2>2. QED  BY <1>2, <1>6, <2>1 DEF Fits
<1>11. Fits' => e.length = e.end - e.data
  BY <1>2, <1>5, <1>6 DEF Fits
<1>12. ASSUME Fits', Readable(Writing)
       PROVE  Kept(Writing, Writing') /\ EntryReads(e, Writing')
  <2>1. end.at < BUFFER_SIZE
    BY <1>2, <1>12 DEF Fits
  <2>2. Kept(w, end) /\ Starts(w.at, Owner(r), end) /\ DataReads(r, data.at, end)
    BY <1>5, <1>12, <2>1
  <2>3. \A a, m : Starts(a, m, end) <=> Starts(a, m, Writing')
    BY <1>7 DEF Starts
  <2>4. Readable(Writing')
    BY <1>7, <2>2, <2>3 DEF Kept, Readable
  <2>5. Kept(Writing, Writing')
    BY <2>2, <2>3, <2>4 DEF Kept
  <2>6. EntryReads(e, Writing')
    BY <1>6, <2>2, <2>3 DEF EntryReads, DataReads
  <2>7. QED  BY <2>5, <2>6
<1>13. QED  BY <1>1, <1>2, <1>6, <1>8, <1>9, <1>10, <1>11, <1>12

\* No step writes outside the buffer.
LEMMA WriteStep ==
    ASSUME SetupInv, PhaseInv, WriteInv, [Next]_vars
    PROVE  WriteInv'
<1>1. ASSUME UNCHANGED setup PROVE Labels' = Labels
  <2>1. added' = added /\ labels' = labels
    BY <1>1 DEF setup
  <2>2. \A l : Chain(l)' = Chain(l)
    BY <2>1 DEF Chain, ServiceAt
  <2>3. QED  BY <2>1, <2>2 DEF Labels
<1>2. ASSUME UNCHANGED setup, UNCHANGED written PROVE WriteInv'
  <2>1. Writing' = Writing /\ writeOffset' = writeOffset
    BY <1>2 DEF Writing, written
  <2>2. QED  BY <1>1, <1>2, <2>1 DEF WriteInv, Within
<1>3. ASSUME NEW i \in Instance, AddService(i) PROVE WriteInv'
  <2>1. UNCHANGED written /\ writeOffset = Nothing
    BY <1>3 DEF AddService, PhaseInv
  <2>2. Writing' = Writing /\ writeOffset' = Nothing
    BY <2>1 DEF Writing, written
  <2>3. QED  BY <2>2 DEF WriteInv, Within, Nothing
<1>4. CASE begin
  BY <1>2, <1>4 DEF begin
<1>5. ASSUME NEW packet \in Packets, Receive(packet) PROVE WriteInv'
  BY <1>2, <1>5 DEF Receive
<1>6. CASE MatchQuestion
  BY <1>2, <1>6 DEF MatchQuestion
<1>7. CASE WriteHeader
  <2>1. /\ UNCHANGED setup /\ writeOffset' = writeOffset /\ image' = image
        /\ offset' \in {0, HEADER_SIZE}
    BY <1>7 DEF WriteHeader
  <2>2. offset' \in 0..BUFFER_SIZE
    BY <2>1, SizeAssumption DEF HEADER_SIZE
  <2>3. QED  BY <1>1, <2>1, <2>2 DEF WriteInv, Within, Writing
<1>8. CASE WriteNext
  <2>1. Wrote(Writing, Writing', Labels) /\ UNCHANGED setup
    BY <1>8, RecordStep
  <2>2. Writing.offsets = writeOffset /\ Writing'.offsets = writeOffset'
    BY DEF Writing
  <2>3. QED  BY <1>1, <2>1, <2>2 DEF WriteInv, Wrote, Within
<1>9. CASE EndSection
  BY <1>2, <1>9 DEF EndSection
<1>10. CASE Reset
  <2>1. /\ UNCHANGED setup /\ offset' = 0 /\ image' = Nothing
        /\ writeOffset' = [l \in DOMAIN writeOffset \ ResetLabels |-> writeOffset[l]]
    BY <1>10 DEF Reset
  <2>2. \A l \in DOMAIN writeOffset' : l \in DOMAIN writeOffset /\ writeOffset'[l] = writeOffset[l]
    BY <2>1
  <2>3. BUFFER_SIZE \in Nat
    BY SizeAssumption
  <2>4. QED  BY <1>1, <2>1, <2>2, <2>3 DEF WriteInv, Within, Writing, Nothing
<1>11. CASE UNCHANGED vars
  BY <1>2, <1>11 DEF vars, setup, written
<1>12. QED
  BY <1>3, <1>4, <1>5, <1>6, <1>7, <1>8, <1>9, <1>10, <1>11, NextCases

\* No step declares a wrong length.
LEMMA LengthsStep ==
    ASSUME SetupInv, PhaseInv, EntriesInv, WriteInv, LengthsTrue, [Next]_vars
    PROVE  LengthsTrue'
<1>1. ASSUME UNCHANGED <<offset, entries>> PROVE LengthsTrue'
  BY <1>1 DEF LengthsTrue, Fits
<1>2. ASSUME entries' = <<>> PROVE LengthsTrue'
  BY <1>2 DEF LengthsTrue, ToSet
<1>3. CASE WriteNext
  <2>1. PICK e : entries' = Append(entries, e) /\ (Fits' => Fits /\ e.length = e.end - e.data)
    BY <1>3, RecordStep
  <2>2. ToSet(entries') = ToSet(entries) \cup {e}
    BY <2>1, EntryAppended
  <2>3. QED  BY <2>1, <2>2 DEF LengthsTrue
<1>4. CASE WriteHeader
  BY <1>2, <1>4 DEF WriteHeader, PhaseInv
<1>5. CASE Reset
  BY <1>2, <1>5 DEF Reset
<1>6. ASSUME ~WriteNext, ~WriteHeader, ~Reset PROVE UNCHANGED <<offset, entries>>
  BY <1>6, NextCases DEF AddService, begin, Receive, MatchQuestion, EndSection, written, vars
<1>7. QED  BY <1>1, <1>3, <1>4, <1>5, <1>6

\* What is readable depends on the names, which set-up fixes.
LEMMA ReadableUnchanged ==
    ASSUME UNCHANGED setup
    PROVE  \A w, e : /\ Readable(w)' <=> Readable(w)
                     /\ EntryReads(e, w)' <=> EntryReads(e, w)
<1>1. added' = added
  BY DEF setup
<1>2. \A l : nextLabel(l)' = nextLabel(l)
  BY <1>1 DEF nextLabel, ServiceAt
<1>3. \A r : Owner(r)' = Owner(r)
  BY <1>1 DEF Owner, ServiceAt
<1>4. \A w : Readable(w)' <=> Readable(w)
  BY <1>2 DEF Readable, Starts
<1>5. \A e, w : EntryReads(e, w)' <=> EntryReads(e, w)
  BY <1>3 DEF EntryReads, DataReads, Starts, Type
<1>6. QED  BY <1>4, <1>5

\* With no instance added twice every label that has an offset is reset.
LEMMA AllReset ==
    ASSUME SetupInv, WriteInv, Distinct
    PROVE  DOMAIN writeOffset \subseteq ResetLabels
<1>1. \A l \in labels : l \in ToSet(Chain(l))
  <2> SUFFICES ASSUME NEW l \in labels PROVE l \in ToSet(Chain(l))
    OBVIOUS
  <2>1. Linked(Chain(l)) /\ Chain(l)[1] = l
    BY LabelStartsName, ChainLinked
  <2>2. \A c : Linked(c) => 1 \in DOMAIN c
    BY DEF Linked
  <2>3. QED  BY <2>1, <2>2 DEF ToSet
<1>2. labels \cup {InstanceAt(k) : k \in DOMAIN added} = labels
  BY DEF SetupInv
<1>3. Labels = labels \cup UNION {ToSet(Chain(l)) : l \in labels}
  BY <1>2 DEF Labels
<1>4. \A l \in Labels : \E m \in labels : l \in ToSet(Chain(m))
  BY <1>1, <1>3
<1>5. Labels \subseteq ResetLabels
  BY <1>4 DEF ResetLabels
<1>6. QED  BY <1>5 DEF WriteInv

\* No step makes a name unreadable, or keeps an offset for the next packet.
LEMMA NamesStep ==
    ASSUME SetupInv, PhaseInv, EntriesInv, WriteInv, NamesInv, [Next]_vars
    PROVE  NamesInv'
<1>1. ASSUME writeOffset' = Nothing, image' = Nothing, entries' = <<>>
      PROVE  NamesInv'
  <2>1. Readable(Writing)'
    BY <1>1 DEF Readable, Writing, Nothing
  <2>2. \A e \in ToSet(entries') : FALSE
    BY <1>1 DEF ToSet
  <2>3. QED  BY <1>1, <2>1, <2>2 DEF NamesInv
<1>2. ASSUME UNCHANGED setup PROVE Distinct' <=> Distinct
  BY <1>2 DEF Distinct, setup
<1>3. ASSUME NEW i \in Instance, AddService(i) PROVE NamesInv'
  BY <1>1, <1>3 DEF AddService, written, PhaseInv
<1>4. ASSUME UNCHANGED setup, UNCHANGED <<writeOffset, image, entries>>,
             pc \in {"setup", "idle", "match"}
      PROVE  NamesInv'
  <2>1. CASE Distinct
    BY <1>1, <1>4, <2>1 DEF NamesInv, PhaseInv
  <2>2. CASE ~Distinct
    BY <1>2, <1>4, <2>2 DEF NamesInv
  <2>3. QED  BY <2>1, <2>2
<1>5. ASSUME UNCHANGED setup, UNCHANGED written, pc \notin {"setup", "idle", "match"},
             pc' \notin {"setup", "idle", "match"}
      PROVE  NamesInv'
  <2>1. Writing' = Writing /\ Fits' = Fits /\ entries' = entries
    BY <1>5 DEF Writing, Fits, written
  <2>2. \A w, e : /\ Readable(w)' <=> Readable(w)
                  /\ EntryReads(e, w)' <=> EntryReads(e, w)
    BY <1>5, ReadableUnchanged
  <2>3. /\ Readable(Writing)' <=> Readable(Writing)
        /\ \A e : EntryReads(e, Writing)' <=> EntryReads(e, Writing)
    BY <2>1, <2>2
  <2>4. QED  BY <1>2, <1>5, <2>1, <2>3 DEF NamesInv
<1>6. CASE begin
  BY <1>4, <1>6 DEF begin, written
<1>7. ASSUME NEW packet \in Packets, Receive(packet) PROVE NamesInv'
  BY <1>4, <1>7 DEF Receive, written
<1>8. CASE MatchQuestion
  BY <1>4, <1>8 DEF MatchQuestion, written
<1>9. CASE WriteHeader
  BY <1>4, <1>9 DEF WriteHeader
<1>10. CASE WriteNext
  <2>1. PICK e :
           /\ entries' = Append(entries, e) /\ UNCHANGED setup
           /\ Fits' => Fits
           /\ Fits' /\ Readable(Writing) =>
                 Kept(Writing, Writing') /\ EntryReads(e, Writing')
    BY <1>10, RecordStep
  <2>2. ToSet(entries') = ToSet(entries) \cup {e}
    BY <2>1, EntryAppended
  <2>3. pc' \notin {"setup", "idle", "match"}
    BY <1>10 DEF WriteNext
  <2>4. ASSUME Distinct, Fits'
        PROVE  Readable(Writing') /\ \A x \in ToSet(entries') : EntryReads(x, Writing')
    <3>1. Readable(Writing) /\ \A x \in ToSet(entries) : EntryReads(x, Writing)
      BY <2>1, <2>4 DEF NamesInv
    <3>2. Kept(Writing, Writing') /\ EntryReads(e, Writing')
      BY <2>1, <2>4, <3>1
    <3>3. \A x : EntryReads(x, Writing) => EntryReads(x, Writing')
      BY <3>2 DEF Kept, EntryReads, DataReads
    <3>4. QED  BY <2>2, <3>1, <3>2, <3>3 DEF Kept
  <2>5. \A w, x : /\ Readable(w)' <=> Readable(w)
                  /\ EntryReads(x, w)' <=> EntryReads(x, w)
    BY <2>1, ReadableUnchanged
  <2>6. /\ Readable(Writing)' <=> Readable(Writing')
        /\ \A x : EntryReads(x, Writing)' <=> EntryReads(x, Writing')
    BY <2>5
  <2>7. QED  BY <1>2, <2>1, <2>3, <2>4, <2>6 DEF NamesInv
<1>11. CASE EndSection
  BY <1>5, <1>11 DEF EndSection
<1>12. CASE Reset
  <2>1. /\ UNCHANGED setup /\ image' = Nothing /\ entries' = <<>>
        /\ writeOffset' = [l \in DOMAIN writeOffset \ ResetLabels |-> writeOffset[l]]
    BY <1>12 DEF Reset
  <2>2. CASE Distinct
    <3>1. DOMAIN writeOffset \ ResetLabels = {}
      BY <2>2, AllReset
    <3>2. writeOffset' = Nothing
      BY <2>1, <3>1 DEF Nothing
    <3>3. QED  BY <1>1, <2>1, <3>2
  <2>3. CASE ~Distinct
    BY <1>2, <2>1, <2>3 DEF NamesInv
  <2>4. QED  BY <2>2, <2>3
<1>13. CASE UNCHANGED vars
  <2>1. UNCHANGED setup /\ UNCHANGED written /\ pc' = pc
    BY <1>13 DEF vars, setup, written
  <2>2. CASE pc \in {"setup", "idle", "match"}
    BY <1>4, <2>1, <2>2 DEF written
  <2>3. CASE pc \notin {"setup", "idle", "match"}
    BY <1>5, <2>1, <2>3
  <2>4. QED  BY <2>2, <2>3
<1>14. QED
  BY <1>3, <1>6, <1>7, <1>8, <1>9, <1>10, <1>11, <1>12, <1>13, NextCases

----------------------------------------------------------------------------
(* Theorems.                                                               *)

\* The invariant is inductive.
LEMMA InitInv == Init => Inv
<1> SUFFICES ASSUME Init PROVE Inv
  OBVIOUS
<1>1. /\ added = <<>> /\ labels = {Host} /\ records = <<HostA, HostNSEC>>
      /\ incoming = <<>> /\ readOffset = 1 /\ left = 0 /\ asked = NoPacket
      /\ answer = {} /\ additional = {} /\ writeOffset = Nothing /\ image = Nothing
      /\ offset = 0 /\ entries = <<>> /\ pc = "setup"
  BY DEF Init
<1>2. DOMAIN <<>> = {} /\ Len(<<>>) = 0 /\ ToSet(<<>>) = {} /\ <<>> \in Seq({})
  BY DEF ToSet
<1>3. SetupInv
  <2>1. Known = {HostA, HostNSEC}
    BY <1>1, <1>2 DEF Known
  <2>2. /\ <<HostA, HostNSEC>> \in Seq({HostA, HostNSEC})
        /\ DOMAIN <<HostA, HostNSEC>> = 1..2
        /\ <<HostA, HostNSEC>>[1] = HostA /\ <<HostA, HostNSEC>>[2] = HostNSEC
    OBVIOUS
  <2> DEFINE s == <<HostA, HostNSEC>>
  <2>3. ToSet(s) = {HostA, HostNSEC}
    <3> HIDE DEF s
    <3>1. s \in Seq({HostA, HostNSEC}) /\ DOMAIN s = 1..2 /\ s[1] = HostA /\ s[2] = HostNSEC
      BY <2>2 DEF s
    <3>2. QED  BY <3>1 DEF ToSet
  <2>4. records \in Seq(Known) /\ ToSet(records) = Known
    BY <1>1, <2>1, <2>2, <2>3
  <2>5. added \in Seq(Instance) /\ Len(added) <= MaxServices /\ DOMAIN added = {}
    BY <1>1, SizeAssumption
  <2>6. QED  BY <1>1, <2>4, <2>5 DEF SetupInv
<1>4. PhaseInv
  BY <1>1 DEF PhaseInv
<1>5. ReadInv
  <2>1. NoPacket.questions = <<>>
    BY DEF NoPacket
  <2>2. 1..(0 - 0) = {} /\ 0 \in 0..0
    OBVIOUS
  <2>3. QED  BY <1>1, <1>2, <2>1, <2>2, NoPacketWritten DEF ReadInv
<1>6. FoundInv
  BY <1>1 DEF FoundInv, Closed
<1>7. EntriesInv
  BY <1>1, <1>2 DEF EntriesInv
<1>8. WriteInv
  BY <1>1, SizeAssumption DEF WriteInv, Within, Writing, Nothing
<1>9. LengthsTrue
  BY <1>1, <1>2 DEF LengthsTrue
<1>10. NamesInv
  <2>1. Readable(Writing)
    BY <1>1 DEF Readable, Writing, Nothing
  <2>2. QED  BY <1>1, <1>2, <2>1 DEF NamesInv
<1>11. QED  BY <1>3, <1>4, <1>5, <1>6, <1>7, <1>8, <1>9, <1>10 DEF Inv

LEMMA StepInv == Inv /\ [Next]_vars => Inv'
BY SetupStep, PhaseStep, ReadStep, EntriesStep, WriteStep, LengthsStep, NamesStep DEF Inv

\* The parts of the invariant hold together in every reachable state.
THEOREM Invariance == Spec => []Inv
BY InitInv, StepInv, PTL DEF Spec

\* The variables have their types: the reader stays in the packet, the
\* writer in the buffer, and only labels of names get an offset.
THEOREM ResponderTypes == Spec => []TypeOK
<1>1. Inv => TypeOK
  <2> SUFFICES ASSUME SetupInv, PhaseInv, ReadInv, FoundInv, EntriesInv, WriteInv
               PROVE  TypeOK
    BY DEF Inv
  <2>1. /\ added \in Seq(Instance) /\ Len(added) <= MaxServices /\ Host \in labels
        /\ ToSet(records) = Known
    BY DEF SetupInv
  <2>2. readOffset \in 1..Len(incoming) + 1
    <3>1. CASE pc = "match"
      <4> DEFINE n == Len(asked.questions) - left + 1
                 places == 1..(Len(asked.cells) + 1)
      <4>1. incoming = asked.cells /\ readOffset = asked.starts[n]
        BY <3>1 DEF ReadInv
      <4>2. /\ asked.questions \in Seq(Range(asked.questions))
            /\ asked.starts \in Seq(places)
            /\ Len(asked.starts) = Len(asked.questions) + 1
        BY DEF ReadInv, WellWritten
      <4>3. n \in 1..Len(asked.starts)
        BY <4>2 DEF ReadInv
      <4>4. \A s \in Seq(places) : \A k \in 1..Len(s) : s[k] \in places
        <5> HIDE DEF places
        <5>1. QED  OBVIOUS
      <4> HIDE DEF n
      <4>5. asked.starts[n] \in places
        BY <4>2, <4>3, <4>4
      <4>6. QED  BY <4>1, <4>5
    <3>2. CASE pc # "match"
      BY <3>2 DEF PhaseInv
    <3>3. QED  BY <3>1, <3>2
  <2>3. left \in 0..Len(asked.questions)
    BY DEF ReadInv
  <2>4. answer \cup additional \subseteq ToSet(records)
    BY <2>1 DEF FoundInv
  <2>5. Range(writeOffset) \cup DOMAIN image \cup {offset} \subseteq 0..BUFFER_SIZE
    BY DEF WriteInv, Within, Writing, Range
  <2>6. {e.record : e \in ToSet(entries)} \subseteq ToSet(records)
    BY <2>4 DEF EntriesInv
  <2>7. QED  BY <2>1, <2>2, <2>3, <2>4, <2>5, <2>6 DEF TypeOK, PhaseInv, WriteInv
<1>2. QED  BY <1>1, Invariance, PTL

\* While a packet is written its answers are those to the questions that its
\* sender meant, however they are written and whatever came before.
THEOREM AnswersRight == Spec => []AnswersAsked
<1>1. Inv => AnswersAsked
  <2> SUFFICES ASSUME PhaseInv, ReadInv, pc \in {"answers", "additionals"}
               PROVE  answer = UNION {AnswerTo(q) : q \in ToSet(asked.questions)}
    BY DEF Inv, AnswersAsked
  <2>1. left = 0
    BY DEF PhaseInv
  <2>2. asked.questions \in Seq(Range(asked.questions))
    BY DEF ReadInv, WellWritten
  <2>3. DOMAIN asked.questions = 1..(Len(asked.questions) - left)
    BY <2>1, <2>2
  <2>4. answer = UNION {AnswerTo(asked.questions[n]) : n \in DOMAIN asked.questions}
    BY <2>3 DEF ReadInv
  <2>5. {AnswerTo(asked.questions[n]) : n \in DOMAIN asked.questions}
           = {AnswerTo(q) : q \in ToSet(asked.questions)}
    BY DEF ToSet
  <2>6. QED  BY <2>4, <2>5
<1>2. QED  BY <1>1, Invariance, PTL

\* No record is written twice; a packet that fits has every answer, and with
\* each what its reader asks for next.
THEOREM PacketsComplete == Spec => []PacketComplete
<1>1. Inv => PacketComplete
  <2> SUFFICES ASSUME FoundInv, EntriesInv, pc = "reset" PROVE PacketComplete
    BY DEF Inv, PacketComplete
  <2>1. There \subseteq answer \cup additional
    BY DEF EntriesInv, There
  <2>2. answer \subseteq There
    BY DEF EntriesInv
  <2>3. ASSUME NEW r \in There, Type(r) \in {"PTR", "SRV", "TXT"}
        PROVE  {SRV(r[2]), TXT(r[2]), HostA} \subseteq There
    <3>1. entries # <<>>
      BY <2>3 DEF There, ToSet
    <3>2. additional \subseteq There
      BY <3>1 DEF EntriesInv
    <3>3. {SRV(r[2]), TXT(r[2]), HostA} \subseteq answer \cup additional
      BY <2>1, <2>3 DEF FoundInv, Closed
    <3>4. QED  BY <2>2, <3>2, <3>3
  <2>4. \A m, n \in DOMAIN entries : entries[m].record = entries[n].record => m = n
    BY DEF EntriesInv
  <2>5. QED  BY <2>2, <2>3, <2>4 DEF PacketComplete, There
<1>2. QED  BY <1>1, Invariance, PTL

\* In a packet that fits, every compressed name reads as the name that was
\* meant, as long as no instance is added twice.
THEOREM NamesReadable == Spec => []NamesDecode
<1>1. Inv => NamesDecode
  <2> SUFFICES ASSUME WriteInv, NamesInv, Fits, Distinct, FoundInv, EntriesInv, SetupInv,
                      NEW e \in ToSet(entries)
               PROVE  /\ Reads(e.name, Chain(Owner(e.record)))
                      /\ Type(e.record) = "PTR" =>
                             Reads(e.data, Chain(InstanceAt(e.record[2])))
                      /\ Type(e.record) = "SRV" => Reads(e.data + 6, Chain(Host))
                      /\ Type(e.record) = "NSEC" => Reads(e.data, Chain(Owner(e.record)))
    BY DEF Inv, NamesDecode
  <2>1. e.record \in Known
    BY DEF EntriesInv, FoundInv
  <2>2. StartsName(Owner(e.record)) /\ StartsName(Host) /\ \A k : StartsName(InstanceAt(k))
    BY <2>1, RecordLabels, OwnerStartsName, OthersStartName
  <2>3. Readable(Writing) /\ EntryReads(e, Writing)
    BY DEF NamesInv
  <2>4. Within(Writing) /\ Writing.image = image
    BY DEF WriteInv, Writing
  <2>5. \A l, a : StartsName(l) /\ Starts(a, l, Writing) => Reads(a, Chain(l))
    BY <2>3, <2>4, ReadsChain
  <2>6. QED  BY <2>2, <2>3, <2>5 DEF EntryReads, DataReads
<1>2. QED  BY <1>1, Invariance, PTL

\* In a packet that fits, each record's length is that of its data, though
\* it is computed before the name in them is written.
THEOREM LengthsRight == Spec => []LengthsTrue
<1>1. Inv => LengthsTrue
  BY DEF Inv
<1>2. QED  BY <1>1, Invariance, PTL
=============================================================================
