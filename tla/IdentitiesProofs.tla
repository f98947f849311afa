-------------------------- MODULE IdentitiesProofs --------------------------
(***************************************************************************)
(* Proofs about Identities for any contacts, groups and messages.  The     *)
(* tables of the protocol client match its processors (ProcessorsMatch),   *)
(* which for a new processor needs one that no table refers to: there is   *)
(* one for every contact.  A message whose downloads run was opened when   *)
(* its sender and owner were known and nobody waited for them, and this    *)
(* stays so, because known contacts stay known (TasksAreSettled).          *)
(***************************************************************************)
EXTENDS Identities, SequenceFacts, TLAPS

(* Whom needToWaitForMissingIdentity is asked about before m is opened and *)
(* handed on.                                                              *)
Concerned(m) ==
    {Sender[m]} \cup (IF GroupOf[m] = NoGroup THEN {} ELSE {Owner[GroupOf[m]]})

ProcessorsMatch(s) ==
    /\ \A c \in Contacts :
        /\ s.lookups[c] = IF s.processorOf[c] = None THEN 0 ELSE 1
        /\ \A q \in Ids : c \in s.processor[q].missing <=> q = s.processorOf[c]
    /\ \A q \in Ids :
        /\ s.processor[q].missing = {} =>
              s.processor[q].queue = <<>> /\ s.processor[q].group = NoGroup
        /\ s.processor[q].group # NoGroup =>
              s.groupProcessor[s.processor[q].group] = q
    /\ \A g \in Groups :
        s.groupProcessor[g] # None => s.processor[s.groupProcessor[g]].group = g

Sound(s) == s \in Net /\ ProcessorsMatch(s)

TasksAreSettled(s, k) ==
    \A i \in DOMAIN s.tasks : \A c \in Concerned(s.tasks[i][1]) :
        c \in k /\ s.processorOf[c] = None

HandedAreKnown(s, k) == \A m \in Messages : s.handed[m] > 0 => Needed(m) \subseteq k

Orderly(s, k) == Sound(s) /\ TasksAreSettled(s, k) /\ HandedAreKnown(s, k) /\ ~s.crashed

IdInv == TypeOK /\ Orderly(net, known) /\ \A c \in known : nickname[c] # "absent"

-----------------------------------------------------------------------------
(* The constants and sequences.                                            *)

LEMMA ElementsOf ==
    ASSUME NEW S, NEW s \in Seq(S), NEW i \in DOMAIN s
    PROVE  s[i] \in S
  BY LenProperties, ElementOfSeq

LEMMA MessageFacts ==
    ASSUME NEW m \in Messages
    PROVE  /\ Sender[m] \in Contacts /\ Downloads[m] \in Nat
           /\ GroupOf[m] # NoGroup => GroupOf[m] \in Groups /\ Owner[GroupOf[m]] \in Contacts
           /\ Concerned(m) \subseteq Contacts
           /\ m \in Creations =>
                 /\ MembersIn[m] \subseteq Contacts /\ GroupOf[m] \in Groups
                 /\ GroupOf[m] # NoGroup /\ Owner[GroupOf[m]] = Sender[m]
  BY IdentitiesAssumption DEF Concerned

LEMMA ContactsAreFinite == IsFiniteSet(Contacts) /\ Cardinality(Contacts) \in Nat
<1> DEFINE n == Len(HashOrder)
<1>1. n \in Nat /\ DOMAIN HashOrder = 1 .. n /\ HashOrder \in [1 .. n -> Contacts]
  BY IdentitiesAssumption, LenProperties
<1>2. HashOrder \in Surjection(1 .. n, Contacts)
  BY <1>1, IdentitiesAssumption DEF Surjection, Range
<1>3. IsFiniteSet(1 .. n)
  BY <1>1, FS_Interval
<1>4. IsFiniteSet(Contacts)
  BY <1>2, <1>3, FS_Surjection
<1> QED
  BY <1>4, FS_CardinalityType

LEMMA IdsAreNumbers == Ids \subseteq Nat \ {0} /\ None \notin Ids
  BY ContactsAreFinite DEF Ids, None

(* There is a processor for every contact, so one is free as long as a     *)
(* contact is waited for by nobody.                                        *)
LEMMA FreeProcessor ==
    ASSUME NEW s, Sound(s), NEW c \in Contacts, ~Waiting(s, c)
    PROVE  \E i \in Ids : i \notin Referenced(s)
<1> SUFFICES ASSUME \A i \in Ids : i \in Referenced(s)
             PROVE  FALSE
  OBVIOUS
<1> DEFINE n == Cardinality(Contacts)
           f == [i \in Ids |-> CHOOSE d \in Contacts : s.processorOf[d] = i]
<1>1. /\ s.processorOf \in [Contacts -> Ids \cup {None}]
      /\ s.groupProcessor \in [Groups -> Ids \cup {None}]
  BY DEF Sound, Net
<1>2. ASSUME NEW i \in Ids
      PROVE  \E d \in Contacts : s.processorOf[d] = i
  <2>1. CASE i \in Range(s.processorOf)
    BY <1>1, <2>1 DEF Range
  <2>2. CASE i \in Range(s.groupProcessor)
    <3>1. PICK g \in Groups : s.groupProcessor[g] = i
      BY <1>1, <2>2 DEF Range
    <3>2. s.processor[i].group = g /\ g # NoGroup
      BY <3>1, IdsAreNumbers, IdentitiesAssumption DEF Sound, ProcessorsMatch
    <3>3. s.processor[i].missing # {} /\ s.processor[i].missing \subseteq Contacts
      BY <3>2 DEF Sound, ProcessorsMatch, Net
    <3> QED
      BY <3>3 DEF Sound, ProcessorsMatch
  <2> QED
    BY <2>1, <2>2 DEF Referenced
<1>3. /\ f \in [Ids -> Contacts \ {c}]
      /\ \A i \in Ids : s.processorOf[f[i]] = i
  BY <1>2, IdsAreNumbers DEF Waiting, None
<1>4. f \in Injection(Ids, Contacts \ {c})
  BY <1>3 DEF Injection, IsInjective
<1>5. IsFiniteSet(Contacts) /\ n \in Nat
  BY ContactsAreFinite
<1>6. Cardinality(Contacts \ {c}) = n - 1 /\ IsFiniteSet(Contacts \ {c})
  BY <1>5, FS_RemoveElement
<1>7. Cardinality(Ids) <= n - 1
  BY <1>4, <1>6, FS_Injection
<1>8. Cardinality(Ids) = n
  BY <1>5, FS_Interval, FS_EmptySet DEF Ids
<1> QED
  BY <1>5, <1>7, <1>8

LEMMA FirstWaitingWaits ==
    ASSUME NEW s, NEW contacts \in SUBSET Contacts, \E c \in contacts : Waiting(s, c)
    PROVE  FirstWaiting(s, contacts) \in contacts /\ Waiting(s, FirstWaiting(s, contacts))
<1> DEFINE waits(i) == HashOrder[i] \in contacts /\ Waiting(s, HashOrder[i])
           T == {i \in DOMAIN HashOrder : waits(i)}
           First(i) == waits(i) /\ \A j \in DOMAIN HashOrder : waits(j) => i <= j
<1>1. PICK c \in contacts : Waiting(s, c)
  OBVIOUS
<1>2. PICK i \in DOMAIN HashOrder : HashOrder[i] = c
  BY IdentitiesAssumption DEF Range
<1>3. T # {} /\ T \subseteq Nat
  <2>1. DOMAIN HashOrder \subseteq Nat
    BY IdentitiesAssumption, LenProperties
  <2> QED
    BY <1>1, <1>2, <2>1
<1>4. PICK k \in T : \A j \in T : k <= j
  BY <1>3, LeastElement
<1>5. k \in DOMAIN HashOrder /\ First(k)
  BY <1>4
<1>6. FirstWaiting(s, contacts) = HashOrder[CHOOSE j \in DOMAIN HashOrder : First(j)]
  BY DEF FirstWaiting
<1> HIDE DEF First
<1>7. First(CHOOSE j \in DOMAIN HashOrder : First(j))
  BY <1>5
<1> QED
  BY <1>6, <1>7 DEF First

-----------------------------------------------------------------------------
(* The handlers of the protocol client.                                    *)

(* A processor that somebody waits for takes one more message. *)
LEMMA EnqueueKeeps ==
    ASSUME NEW s, NEW k, Orderly(s, k), NEW p \in Ids, s.processor[p].missing # {},
           NEW m \in Messages
    PROVE  Orderly(EnqueueMessage(s, p, m), k)
<1> DEFINE r == EnqueueMessage(s, p, m)
           q == Append(s.processor[p].queue, m)
<1>1. /\ s \in Net /\ s.processor[p].queue \in Seq(Messages)
  BY DEF Orderly, Sound, Net
<1>2. q \in Seq(Messages)
  BY <1>1, SeqAppend
<1>3. r = [s EXCEPT !.processor = [s.processor EXCEPT ![p] = [s.processor[p] EXCEPT !.queue = q]]]
  BY DEF EnqueueMessage
<1> HIDE DEF q, r
<1>4. /\ r \in Net
      /\ r.processorOf = s.processorOf /\ r.groupProcessor = s.groupProcessor
      /\ r.lookups = s.lookups /\ r.tasks = s.tasks /\ r.handed = s.handed
      /\ r.crashed = s.crashed
      /\ \A i \in Ids : /\ r.processor[i].missing = s.processor[i].missing
                        /\ r.processor[i].group = s.processor[i].group
                        /\ i # p => r.processor[i].queue = s.processor[i].queue
  BY <1>1, <1>2, <1>3 DEF Net
<1>5. ProcessorsMatch(r)
  BY <1>1, <1>4 DEF Orderly, Sound, ProcessorsMatch, Net
<1> QED
  BY <1>4, <1>5 DEF Orderly, Sound, TasksAreSettled, HandedAreKnown, r

(* r is s with p as the processor of the missing contacts. *)
HasProcessor(s, r, p, missing, g, m) ==
    /\ p \notin Referenced(s)
    /\ r.processorOf = [c \in Contacts |-> IF c \in missing THEN p
                                           ELSE s.processorOf[c]]
    /\ r.processor = [s.processor EXCEPT ![p] =
           [missing |-> missing, group |-> g, failed |-> FALSE, queue |-> <<m>>]]
    /\ r.lookups = [c \in Contacts |-> IF c \in missing THEN s.lookups[c] + 1
                                       ELSE s.lookups[c]]
    /\ r.groupProcessor = s.groupProcessor /\ r.tasks = s.tasks
    /\ r.handed = s.handed /\ r.crashed = s.crashed /\ r.backlog = s.backlog
    /\ r \in Net

LEMMA NewProcessorIs ==
    ASSUME NEW s, Sound(s), NEW missing \in SUBSET Contacts, missing # {},
           \A c \in missing : ~Waiting(s, c),
           NEW g \in Groups \cup {NoGroup}, NEW m \in Messages
    PROVE  \E p \in Ids : HasProcessor(s, NewProcessor(s, missing, g, m), p, missing, g, m)
<1> DEFINE p == CHOOSE i \in Ids : i \notin Referenced(s)
           r == NewProcessor(s, missing, g, m)
           entry == [missing |-> missing, group |-> g, failed |-> FALSE, queue |-> <<m>>]
           of == [c \in Contacts |-> IF c \in missing THEN p ELSE s.processorOf[c]]
           all == [s.processor EXCEPT ![p] = entry]
           running == [c \in Contacts |-> IF c \in missing THEN s.lookups[c] + 1
                                          ELSE s.lookups[c]]
<1>1. p \in Ids /\ p \notin Referenced(s)
  BY FreeProcessor
<1>2. s \in Net
  BY DEF Sound
<1>3. r = [s EXCEPT !.processorOf = of, !.processor = all, !.lookups = running]
  BY <1>2 DEF NewProcessor, Net
<1>4. <<m>> \in Seq(Messages)
  OBVIOUS
<1>5. entry \in [missing : SUBSET Contacts, group : Groups \cup {NoGroup},
                 failed : BOOLEAN, queue : Seq(Messages)]
  BY <1>4
<1> HIDE DEF p, entry
<1>6. /\ of \in [Contacts -> Ids \cup {None}]
      /\ all \in [Ids -> [missing : SUBSET Contacts, group : Groups \cup {NoGroup},
                          failed : BOOLEAN, queue : Seq(Messages)]]
      /\ running \in [Contacts -> Nat]
  BY <1>1, <1>2, <1>5 DEF Net
<1> HIDE DEF of, all, running, r
<1>7. /\ r.processorOf = of /\ r.processor = all /\ r.lookups = running
      /\ r.groupProcessor = s.groupProcessor /\ r.tasks = s.tasks
      /\ r.handed = s.handed /\ r.crashed = s.crashed /\ r.backlog = s.backlog
      /\ r \in Net
  BY <1>2, <1>3, <1>6 DEF Net
<1> QED
  BY <1>1, <1>7 DEF HasProcessor, of, all, running, entry, r

(* Contacts that nobody waits for are not missed by any processor, and a   *)
(* free processor misses nobody.                                           *)
LEMMA FreeProcessorIsEmpty ==
    ASSUME NEW s, Sound(s), NEW p \in Ids, p \notin Referenced(s)
    PROVE  s.processor[p].missing = {} /\ s.processor[p].group = NoGroup
<1>1. s.processor[p].missing \subseteq Contacts
  BY DEF Sound, Net
<1>2. \A c \in Contacts : s.processorOf[c] \in Referenced(s)
  BY DEF Sound, Net, Referenced, Range
<1>3. s.processor[p].missing = {}
  BY <1>1, <1>2 DEF Sound, ProcessorsMatch
<1> QED
  BY <1>3 DEF Sound, ProcessorsMatch

LEMMA NewProcessorKeeps ==
    ASSUME NEW s, NEW k, Orderly(s, k), NEW missing \in SUBSET Contacts, missing # {},
           missing \cap k = {}, \A c \in missing : ~Waiting(s, c), NEW m \in Messages
    PROVE  Orderly(NewProcessor(s, missing, NoGroup, m), k)
<1> DEFINE r == NewProcessor(s, missing, NoGroup, m)
<1>1. Sound(s) /\ s \in Net
  BY DEF Orderly, Sound
<1>new. PICK p \in Ids : HasProcessor(s, r, p, missing, NoGroup, m)
  BY <1>1, NewProcessorIs
<1>2. /\ p \notin Referenced(s)
      /\ r.processorOf = [c \in Contacts |-> IF c \in missing THEN p
                                             ELSE s.processorOf[c]]
      /\ r.processor = [s.processor EXCEPT ![p] =
             [missing |-> missing, group |-> NoGroup, failed |-> FALSE, queue |-> <<m>>]]
      /\ r.lookups = [c \in Contacts |-> IF c \in missing THEN s.lookups[c] + 1
                                         ELSE s.lookups[c]]
      /\ r.groupProcessor = s.groupProcessor /\ r.tasks = s.tasks
      /\ r.handed = s.handed /\ r.crashed = s.crashed
      /\ r \in Net
  BY <1>new DEF HasProcessor
<1> HIDE DEF r
<1>3. s.processor[p].missing = {} /\ s.processor[p].group = NoGroup
  BY <1>1, <1>2, FreeProcessorIsEmpty
<1>4. /\ r.processor[p].missing = missing /\ r.processor[p].group = NoGroup
      /\ \A q \in Ids : q # p => r.processor[q] = s.processor[q]
  BY <1>1, <1>2 DEF Net
<1>5. /\ \A c \in Contacts : s.processorOf[c] # p
      /\ \A g \in Groups : s.groupProcessor[g] # p
  BY <1>1, <1>2 DEF Referenced, Range, Net
<1>6. ASSUME NEW c \in Contacts
      PROVE  /\ r.lookups[c] = IF r.processorOf[c] = None THEN 0 ELSE 1
             /\ \A q \in Ids : c \in r.processor[q].missing <=> q = r.processorOf[c]
  <2>1. /\ s.lookups[c] = IF s.processorOf[c] = None THEN 0 ELSE 1
        /\ \A q \in Ids : c \in s.processor[q].missing <=> q = s.processorOf[c]
    BY <1>1 DEF Sound, ProcessorsMatch
  <2>2. CASE c \in missing
    <3>1. s.processorOf[c] = None
      BY <2>2 DEF Waiting
    <3>2. r.processorOf[c] = p /\ r.lookups[c] = 1 /\ p # None
      BY <1>2, <2>1, <2>2, <3>1, IdsAreNumbers
    <3>3. \A q \in Ids : q # p => c \notin r.processor[q].missing
      BY <1>4, <2>1, <3>1, IdsAreNumbers
    <3> QED
      BY <1>4, <2>2, <3>2, <3>3
  <2>3. CASE c \notin missing
    <3>1. r.processorOf[c] = s.processorOf[c] /\ r.lookups[c] = s.lookups[c]
      BY <1>2, <2>3
    <3> QED
      BY <1>4, <1>5, <2>1, <2>3, <3>1
  <2> QED
    BY <2>2, <2>3
<1>7. ProcessorsMatch(r)
  BY <1>1, <1>2, <1>4, <1>5, <1>6 DEF Sound, ProcessorsMatch
<1>8. TasksAreSettled(r, k)
  <2> SUFFICES ASSUME NEW i \in DOMAIN r.tasks, NEW c \in Concerned(r.tasks[i][1])
               PROVE  c \in k /\ r.processorOf[c] = None
    BY DEF TasksAreSettled
  <2>1. c \in k /\ s.processorOf[c] = None
    BY <1>2 DEF Orderly, TasksAreSettled
  <2>2. c \in Contacts
    <3>1. s.tasks[i] \in Messages \X (Nat \ {0})
      BY <1>1, <1>2, ElementOfSeq DEF Net
    <3> QED
      BY <1>2, <3>1, MessageFacts
  <2> QED
    BY <1>2, <2>1, <2>2
<1> QED
  BY <1>2, <1>7, <1>8 DEF Orderly, Sound, HandedAreKnown, r

(* The processor of a creation whose members are not all known. *)
LEMMA NewGroupKeeps ==
    ASSUME NEW s, NEW k, Orderly(s, k), NEW missing \in SUBSET Contacts, missing # {},
           missing \cap k = {}, \A c \in missing : ~Waiting(s, c), NEW m \in Messages,
           NEW g \in Groups, s.groupProcessor[g] = None
    PROVE  LET t == NewProcessor(s, missing, g, m)
           IN  Orderly([t EXCEPT !.groupProcessor[g] =
                            t.processorOf[CHOOSE c \in missing : TRUE]], k)
<1> DEFINE t == NewProcessor(s, missing, g, m)
           d == CHOOSE c \in missing : TRUE
           r == [t EXCEPT !.groupProcessor[g] = t.processorOf[d]]
<1>1. Sound(s) /\ s \in Net
  BY DEF Orderly, Sound
<1>new. PICK p \in Ids : HasProcessor(s, t, p, missing, g, m)
  BY <1>1, NewProcessorIs
<1>2. /\ p \notin Referenced(s)
      /\ t.processorOf = [c \in Contacts |-> IF c \in missing THEN p
                                             ELSE s.processorOf[c]]
      /\ t.processor = [s.processor EXCEPT ![p] =
             [missing |-> missing, group |-> g, failed |-> FALSE, queue |-> <<m>>]]
      /\ t.lookups = [c \in Contacts |-> IF c \in missing THEN s.lookups[c] + 1
                                         ELSE s.lookups[c]]
      /\ t.groupProcessor = s.groupProcessor /\ t.tasks = s.tasks
      /\ t.handed = s.handed /\ t.crashed = s.crashed
      /\ t \in Net
  BY <1>new DEF HasProcessor
<1>3. d \in missing
  OBVIOUS
<1> HIDE DEF t, d
<1>4. t.processorOf[d] = p
  BY <1>2, <1>3
<1>5. /\ r.groupProcessor = [s.groupProcessor EXCEPT ![g] = p]
      /\ r.processorOf = t.processorOf /\ r.processor = t.processor
      /\ r.lookups = t.lookups /\ r.tasks = s.tasks /\ r.handed = s.handed
      /\ r.crashed = s.crashed /\ r \in Net
  BY <1>1, <1>2, <1>4 DEF Net
<1> HIDE DEF r
<1>6. s.processor[p].missing = {} /\ s.processor[p].group = NoGroup
  BY <1>1, <1>2, FreeProcessorIsEmpty
<1>7. /\ r.processor[p].missing = missing /\ r.processor[p].group = g
      /\ \A q \in Ids : q # p => r.processor[q] = s.processor[q]
  BY <1>1, <1>2, <1>5 DEF Net
<1>8. /\ \A c \in Contacts : s.processorOf[c] # p
      /\ \A h \in Groups : s.groupProcessor[h] # p
  BY <1>1, <1>2 DEF Referenced, Range, Net
<1>9. ASSUME NEW c \in Contacts
      PROVE  /\ r.lookups[c] = IF r.processorOf[c] = None THEN 0 ELSE 1
             /\ \A q \in Ids : c \in r.processor[q].missing <=> q = r.processorOf[c]
  <2>1. /\ s.lookups[c] = IF s.processorOf[c] = None THEN 0 ELSE 1
        /\ \A q \in Ids : c \in s.processor[q].missing <=> q = s.processorOf[c]
    BY <1>1 DEF Sound, ProcessorsMatch
  <2>2. CASE c \in missing
    <3>1. s.processorOf[c] = None
      BY <2>2 DEF Waiting
    <3>2. r.processorOf[c] = p /\ r.lookups[c] = 1 /\ p # None
      BY <1>2, <1>5, <2>1, <2>2, <3>1, IdsAreNumbers
    <3>3. \A q \in Ids : q # p => c \notin r.processor[q].missing
      BY <1>7, <2>1, <3>1, IdsAreNumbers
    <3> QED
      BY <1>7, <2>2, <3>2, <3>3
  <2>3. CASE c \notin missing
    <3>1. r.processorOf[c] = s.processorOf[c] /\ r.lookups[c] = s.lookups[c]
      BY <1>2, <1>5, <2>3
    <3> QED
      BY <1>7, <1>8, <2>1, <2>3, <3>1
  <2> QED
    BY <2>2, <2>3
<1>10. ASSUME NEW q \in Ids
       PROVE  /\ r.processor[q].missing = {} =>
                    r.processor[q].queue = <<>> /\ r.processor[q].group = NoGroup
              /\ r.processor[q].group # NoGroup =>
                    r.groupProcessor[r.processor[q].group] = q
  <2>1. /\ s.processor[q].missing = {} =>
              s.processor[q].queue = <<>> /\ s.processor[q].group = NoGroup
        /\ s.processor[q].group # NoGroup =>
              s.groupProcessor[s.processor[q].group] = q
    BY <1>1 DEF Sound, ProcessorsMatch
  <2>2. CASE q = p
    BY <1>1, <1>5, <1>7, <2>2 DEF Net
  <2>3. CASE q # p
    <3>1. r.processor[q] = s.processor[q] /\ s.processor[q].group \in Groups \cup {NoGroup}
      BY <1>1, <1>7, <2>3 DEF Net
    <3>2. s.processor[q].group # g
      BY <2>1, IdsAreNumbers, IdentitiesAssumption
    <3> QED
      BY <1>1, <1>5, <2>1, <3>1, <3>2 DEF Net
  <2> QED
    BY <2>2, <2>3
<1>11. ASSUME NEW h \in Groups, r.groupProcessor[h] # None
       PROVE  r.processor[r.groupProcessor[h]].group = h
  <2>1. CASE h = g
    BY <1>1, <1>5, <1>7, <2>1 DEF Net
  <2>2. CASE h # g
    <3>1. r.groupProcessor[h] = s.groupProcessor[h] /\ s.groupProcessor[h] \in Ids \cup {None}
      BY <1>1, <1>5, <2>2 DEF Net
    <3>2. s.groupProcessor[h] # p
      BY <1>8
    <3> QED
      BY <1>1, <1>7, <1>11, <3>1, <3>2 DEF Sound, ProcessorsMatch
  <2> QED
    BY <2>1, <2>2
<1>12. ProcessorsMatch(r)
  BY <1>9, <1>10, <1>11 DEF ProcessorsMatch
<1>13. TasksAreSettled(r, k)
  <2> SUFFICES ASSUME NEW i \in DOMAIN r.tasks, NEW c \in Concerned(r.tasks[i][1])
               PROVE  c \in k /\ r.processorOf[c] = None
    BY DEF TasksAreSettled
  <2>1. c \in k /\ s.processorOf[c] = None
    BY <1>5 DEF Orderly, TasksAreSettled
  <2>2. c \in Contacts
    <3>1. s.tasks[i] \in Messages \X (Nat \ {0})
      BY <1>1, <1>5, ElementOfSeq DEF Net
    <3> QED
      BY <1>5, <3>1, MessageFacts
  <2> QED
    BY <1>2, <1>5, <2>1, <2>2
<1>14. Orderly(r, k)
  BY <1>5, <1>12, <1>13 DEF Orderly, Sound, HandedAreKnown
<1> QED
  BY <1>14 DEF r, t, d

LEMMA HandOverKeeps ==
    ASSUME NEW s, NEW k, Orderly(s, k), NEW m \in Messages, Needed(m) \subseteq k
    PROVE  Orderly(HandOver(s, m), k)
<1> DEFINE r == HandOver(s, m)
           h == [s.handed EXCEPT ![m] = s.handed[m] + 1]
<1>1. /\ s \in Net /\ h \in [Messages -> Nat]
      /\ \A n \in Messages : n # m => h[n] = s.handed[n]
  BY DEF Orderly, Sound, Net
<1>2. r = [s EXCEPT !.handed = h]
  BY DEF HandOver
<1> HIDE DEF r, h
<1>3. /\ r.processorOf = s.processorOf /\ r.groupProcessor = s.groupProcessor
      /\ r.lookups = s.lookups /\ r.tasks = s.tasks /\ r.processor = s.processor
      /\ r.crashed = s.crashed
      /\ \A n \in Messages : n # m => r.handed[n] = s.handed[n]
      /\ r \in Net
  BY <1>1, <1>2 DEF Net
<1>4. ProcessorsMatch(r)
  BY <1>3 DEF Orderly, Sound, ProcessorsMatch
<1>5. TasksAreSettled(r, k)
  BY <1>3 DEF Orderly, TasksAreSettled
<1>6. HandedAreKnown(r, k)
  BY <1>3 DEF Orderly, HandedAreKnown
<1> QED
  BY <1>3, <1>4, <1>5, <1>6 DEF Orderly, Sound, r

LEMMA WaitingProcessor ==
    ASSUME NEW s, Sound(s), NEW c \in Contacts, Waiting(s, c)
    PROVE  s.processorOf[c] \in Ids /\ s.processor[s.processorOf[c]].missing # {}
  BY DEF Sound, Net, ProcessorsMatch, Waiting

LEMMA GroupsProcessor ==
    ASSUME NEW s, Sound(s), NEW g \in Groups, s.groupProcessor[g] # None
    PROVE  s.groupProcessor[g] \in Ids /\ s.processor[s.groupProcessor[g]].missing # {}
<1>1. s.groupProcessor[g] \in Ids
  BY DEF Sound, Net
<1>2. s.processor[s.groupProcessor[g]].group = g /\ g # NoGroup
  BY IdentitiesAssumption DEF Sound, ProcessorsMatch
<1> QED
  BY <1>1, <1>2 DEF Sound, ProcessorsMatch

LEMMA WaitForMissingIdentityKeeps ==
    ASSUME NEW s, Orderly(s, known), NEW c \in Contacts, NeedsToWait(s, c),
           NEW m \in Messages
    PROVE  Orderly(WaitForMissingIdentity(s, c, m), known)
<1>1. CASE Waiting(s, c)
  <2>1. s.processorOf[c] \in Ids /\ s.processor[s.processorOf[c]].missing # {}
    BY <1>1, WaitingProcessor DEF Orderly
  <2> QED
    BY <1>1, <2>1, EnqueueKeeps DEF WaitForMissingIdentity
<1>2. CASE ~Waiting(s, c)
  <2>1. c \notin known
    BY <1>2 DEF NeedsToWait
  <2>2. /\ {c} \in SUBSET Contacts /\ {c} # {} /\ {c} \cap known = {}
        /\ \A d \in {c} : ~Waiting(s, d)
    BY <1>2, <2>1
  <2>3. Orderly(NewProcessor(s, {c}, NoGroup, m), known)
    BY <2>2, NewProcessorKeeps
  <2> QED
    BY <1>2, <2>3 DEF WaitForMissingIdentity
<1> QED
  BY <1>1, <1>2

LEMMA HandleGroupCreationKeeps ==
    ASSUME NEW s, Orderly(s, known), NEW m \in Messages, m \in Creations,
           Concerned(m) \subseteq known, s.groupProcessor[GroupOf[m]] = None
    PROVE  Orderly(HandleGroupCreation(s, m), known)
<1> DEFINE members == MembersIn[m]
           missing == members \ known
           g == GroupOf[m]
<1>1. members \in SUBSET Contacts /\ g \in Groups
  BY MessageFacts
<1>2. CASE \E c \in members : Waiting(s, c)
  <2> DEFINE first == FirstWaiting(s, members)
  <2>1. first \in Contacts /\ Waiting(s, first)
    BY <1>1, <1>2, FirstWaitingWaits
  <2> HIDE DEF first
  <2>2. s.processorOf[first] \in Ids /\ s.processor[s.processorOf[first]].missing # {}
    BY <2>1, WaitingProcessor DEF Orderly
  <2>3. Orderly(EnqueueMessage(s, s.processorOf[first], m), known)
    BY <2>2, EnqueueKeeps
  <2>4. HandleGroupCreation(s, m) = EnqueueMessage(s, s.processorOf[first], m)
    BY <1>2 DEF HandleGroupCreation, first
  <2> QED
    BY <2>3, <2>4
<1>3. CASE (\A c \in members : ~Waiting(s, c)) /\ missing = {}
  <2>1. Needed(m) \subseteq known
    BY <1>3 DEF Concerned, Needed
  <2>2. HandleGroupCreation(s, m) = HandOver(s, m)
    BY <1>3 DEF HandleGroupCreation
  <2> QED
    BY <2>1, <2>2, HandOverKeeps
<1>4. CASE (\A c \in members : ~Waiting(s, c)) /\ missing # {}
  <2> DEFINE t == NewProcessor(s, missing, g, m)
             r == [t EXCEPT !.groupProcessor[g] = t.processorOf[CHOOSE c \in missing : TRUE]]
  <2>1. missing \in SUBSET Contacts /\ missing \cap known = {}
        /\ \A c \in missing : ~Waiting(s, c)
    BY <1>1, <1>4
  <2>2. HandleGroupCreation(s, m) = r
    BY <1>4 DEF HandleGroupCreation
  <2> HIDE DEF missing, g
  <2>3. Orderly(r, known)
    BY <1>1, <1>4, <2>1, NewGroupKeeps DEF g
  <2> QED
    BY <2>2, <2>3
<1> QED
  BY <1>2, <1>3, <1>4

(* An opened message whose sender is known and, if it comes back from a    *)
(* download, whose group's owner is known as well.                         *)
LEMMA HandleOpenedKeeps ==
    ASSUME NEW s, Orderly(s, known), NEW m \in Messages, NEW left \in Nat,
           NEW sealed \in BOOLEAN, Sender[m] \in known, ~Waiting(s, Sender[m]),
           ~sealed => \A c \in Concerned(m) : ~NeedsToWait(s, c)
    PROVE  Orderly(HandleOpened(s, m, left, sealed), known)
<1> DEFINE g == GroupOf[m]
           waits == g # NoGroup /\ NeedsToWait(s, Owner[g])
           groupWaits == g # NoGroup /\ s.groupProcessor[g] # None
           r == HandleOpened(s, m, left, sealed)
<1>1. Sound(s) /\ s \in Net
  BY DEF Orderly, Sound
<1>2. g # NoGroup => g \in Groups /\ Owner[g] \in Contacts
  BY MessageFacts
<1>3. waits => sealed
  BY DEF Concerned
<1>4. CASE waits
  <2>1. r = WaitForMissingIdentity(s, Owner[g], m)
    BY <1>3, <1>4 DEF HandleOpened
  <2> QED
    BY <1>2, <1>4, <2>1, WaitForMissingIdentityKeeps
<1>5. CASE ~waits /\ groupWaits
  <2>1. s.groupProcessor[g] \in Ids /\ s.processor[s.groupProcessor[g]].missing # {}
    BY <1>1, <1>2, <1>5, GroupsProcessor
  <2>2. Orderly(EnqueueMessage(s, s.groupProcessor[g], m), known)
    BY <2>1, EnqueueKeeps
  <2>3. r = IF sealed THEN EnqueueMessage(s, s.groupProcessor[g], m) ELSE s
    BY <1>5 DEF HandleOpened
  <2> QED
    BY <2>2, <2>3
<1>6. ASSUME ~waits
      PROVE  /\ Concerned(m) \subseteq known
             /\ \A c \in Concerned(m) : c \in known /\ s.processorOf[c] = None
  BY <1>6 DEF Concerned, NeedsToWait, Waiting
<1>7. CASE ~waits /\ ~groupWaits /\ left > 0
  <2> DEFINE tasks == Append(s.tasks, <<m, left>>)
  <2>1. r = [s EXCEPT !.tasks = tasks]
    BY <1>7 DEF HandleOpened
  <2>2. s.tasks \in Seq(Messages \X (Nat \ {0})) /\ <<m, left>> \in Messages \X (Nat \ {0})
    BY <1>1, <1>7 DEF Net
  <2>3. /\ tasks \in Seq(Messages \X (Nat \ {0})) /\ Len(tasks) = Len(s.tasks) + 1
        /\ \A i \in 1 .. Len(s.tasks) : tasks[i] = s.tasks[i]
        /\ tasks[Len(s.tasks) + 1] = <<m, left>>
    BY <2>2, AppendProperties
  <2> HIDE DEF tasks, r
  <2>4. /\ r.processorOf = s.processorOf /\ r.groupProcessor = s.groupProcessor
        /\ r.lookups = s.lookups /\ r.processor = s.processor /\ r.handed = s.handed
        /\ r.crashed = s.crashed /\ r.tasks = tasks /\ r \in Net
    BY <1>1, <2>1, <2>3 DEF Net
  <2>5. TasksAreSettled(r, known)
    <3> SUFFICES ASSUME NEW i \in DOMAIN tasks, NEW c \in Concerned(tasks[i][1])
                 PROVE  c \in known /\ s.processorOf[c] = None
      BY <2>4 DEF TasksAreSettled
    <3>1. i \in 1 .. Len(s.tasks) + 1 /\ Len(s.tasks) \in Nat
      BY <2>2, <2>3, LenProperties
    <3>2. CASE i = Len(s.tasks) + 1
      BY <1>6, <1>7, <2>3, <3>2
    <3>3. CASE i # Len(s.tasks) + 1
      <4>1. i \in 1 .. Len(s.tasks) /\ i \in DOMAIN s.tasks
        BY <2>2, <3>1, <3>3, LenProperties
      <4> QED
        BY <2>3, <4>1 DEF Orderly, TasksAreSettled
    <3> QED
      BY <3>2, <3>3
  <2>6. ProcessorsMatch(r)
    BY <1>1, <2>4 DEF Sound, ProcessorsMatch
  <2>7. HandedAreKnown(r, known)
    BY <2>4 DEF Orderly, HandedAreKnown
  <2> QED
    BY <2>4, <2>5, <2>6, <2>7 DEF Orderly, Sound, r
<1>8. CASE ~waits /\ ~groupWaits /\ ~(left > 0) /\ m \in Creations
  <2>1. r = HandleGroupCreation(s, m)
    BY <1>8 DEF HandleOpened
  <2>2. s.groupProcessor[g] = None
    BY <1>8, MessageFacts
  <2> QED
    BY <1>6, <1>8, <2>1, <2>2, HandleGroupCreationKeeps
<1>9. CASE ~waits /\ ~groupWaits /\ ~(left > 0) /\ m \notin Creations
  <2>1. r = HandOver(s, m)
    BY <1>9 DEF HandleOpened
  <2>2. Needed(m) \subseteq known
    BY <1>6, <1>9 DEF Needed, Concerned
  <2> QED
    BY <2>1, <2>2, HandOverKeeps
<1> QED
  BY <1>4, <1>5, <1>7, <1>8, <1>9

LEMMA HandleIncomingMessageKeeps ==
    ASSUME NEW s, Orderly(s, known), NEW m \in Messages
    PROVE  Orderly(HandleIncomingMessage(s, m), known)
<1>1. Sender[m] \in Contacts /\ Downloads[m] \in Nat
  BY MessageFacts
<1>2. CASE NeedsToWait(s, Sender[m])
  BY <1>1, <1>2, WaitForMissingIdentityKeeps DEF HandleIncomingMessage
<1>3. CASE ~NeedsToWait(s, Sender[m])
  <2>1. Sender[m] \in known /\ ~Waiting(s, Sender[m])
    BY <1>3 DEF NeedsToWait
  <2>2. Orderly(HandleOpened(s, m, Downloads[m], TRUE), known)
    BY <1>1, <2>1, HandleOpenedKeeps
  <2> QED
    BY <1>3, <2>2 DEF HandleIncomingMessage
<1> QED
  BY <1>2, <1>3

-----------------------------------------------------------------------------
(* The ends of lookups and downloads.                                      *)

(* ProcessorsMatch, but p may still have messages. *)
MatchBut(s, p) ==
    /\ \A c \in Contacts :
        /\ s.lookups[c] = IF s.processorOf[c] = None THEN 0 ELSE 1
        /\ \A q \in Ids : c \in s.processor[q].missing <=> q = s.processorOf[c]
    /\ \A q \in Ids :
        /\ q # p /\ s.processor[q].missing = {} =>
              s.processor[q].queue = <<>> /\ s.processor[q].group = NoGroup
        /\ s.processor[q].group # NoGroup =>
              s.groupProcessor[s.processor[q].group] = q
    /\ \A g \in Groups :
        s.groupProcessor[g] # None => s.processor[s.groupProcessor[g]].group = g

LEMMA ProcessorFinishesKeeps ==
    ASSUME NEW s, s \in Net, NEW p \in Ids, MatchBut(s, p), s.processor[p].missing = {}
    PROVE  LET r == ProcessorFinishes(s, p)
           IN  /\ Sound(r)
               /\ r.processorOf = s.processorOf /\ r.tasks = s.tasks
               /\ r.handed = s.handed /\ r.crashed = s.crashed
<1> DEFINE r == ProcessorFinishes(s, p)
           done == s.processor[p]
           of == [g \in Groups |-> IF g = done.group THEN None ELSE s.groupProcessor[g]]
           all == [s.processor EXCEPT ![p] = Empty]
           rest == IF done.failed THEN s.backlog ELSE done.queue
<1>1. /\ of \in [Groups -> Ids \cup {None}] /\ rest \in Seq(Messages)
      /\ all \in [Ids -> [missing : SUBSET Contacts, group : Groups \cup {NoGroup},
                          failed : BOOLEAN, queue : Seq(Messages)]]
  <2>1. Empty \in [missing : SUBSET Contacts, group : Groups \cup {NoGroup},
                   failed : BOOLEAN, queue : Seq(Messages)]
    BY DEF Empty
  <2> HIDE DEF all
  <2>2. /\ of \in [Groups -> Ids \cup {None}]
        /\ s.backlog \in Seq(Messages) /\ done.queue \in Seq(Messages)
    BY DEF Net
  <2>3. all \in [Ids -> [missing : SUBSET Contacts, group : Groups \cup {NoGroup},
                          failed : BOOLEAN, queue : Seq(Messages)]]
    BY <2>1 DEF Net, all
  <2> QED
    BY <2>2, <2>3
<1>2. r = [s EXCEPT !.groupProcessor = of, !.processor = all, !.backlog = rest]
  BY DEF ProcessorFinishes, Net
<1>3. /\ \A q \in Ids : q # p => all[q] = s.processor[q]
      /\ all[p].missing = {} /\ all[p].group = NoGroup /\ all[p].queue = <<>>
  BY DEF Net, Empty
<1>4. \A g \in Groups : of[g] = IF g = done.group THEN None ELSE s.groupProcessor[g]
  OBVIOUS
<1> HIDE DEF r, of, all, rest
<1>5. /\ r.processorOf = s.processorOf /\ r.groupProcessor = of /\ r.processor = all
      /\ r.lookups = s.lookups /\ r.tasks = s.tasks /\ r.handed = s.handed
      /\ r.crashed = s.crashed /\ r \in Net
  BY <1>1, <1>2 DEF Net
<1>6. ASSUME NEW c \in Contacts
      PROVE  /\ r.lookups[c] = IF r.processorOf[c] = None THEN 0 ELSE 1
             /\ \A q \in Ids : c \in r.processor[q].missing <=> q = r.processorOf[c]
  BY <1>3, <1>5 DEF MatchBut
<1>7. ASSUME NEW q \in Ids
      PROVE  /\ r.processor[q].missing = {} =>
                   r.processor[q].queue = <<>> /\ r.processor[q].group = NoGroup
             /\ r.processor[q].group # NoGroup =>
                   r.groupProcessor[r.processor[q].group] = q
  <2>1. CASE q = p
    BY <1>3, <1>5, <2>1
  <2>2. CASE q # p
    <3>1. /\ all[q] = s.processor[q]
          /\ s.processor[q].group \in Groups \cup {NoGroup}
      BY <1>3, <2>2 DEF Net
    <3>2. s.processor[q].group # NoGroup => s.processor[q].group # done.group
      BY <2>2 DEF MatchBut
    <3> QED
      BY <1>4, <1>5, <2>2, <3>1, <3>2 DEF MatchBut
  <2> QED
    BY <2>1, <2>2
<1>8. ASSUME NEW g \in Groups, r.groupProcessor[g] # None
      PROVE  r.processor[r.groupProcessor[g]].group = g
  <2>1. g # done.group /\ r.groupProcessor[g] = s.groupProcessor[g]
    BY <1>4, <1>5, <1>8
  <2>2. s.groupProcessor[g] \in Ids /\ s.processor[s.groupProcessor[g]].group = g
    BY <1>8, <2>1 DEF Net, MatchBut
  <2>3. s.groupProcessor[g] # p
    BY <2>1, <2>2
  <2> QED
    BY <1>3, <1>5, <2>1, <2>2, <2>3
<1>9. ProcessorsMatch(r)
  BY <1>6, <1>7, <1>8 DEF ProcessorsMatch
<1> QED
  BY <1>5, <1>9 DEF Sound, r

LEMMA LookupFinishesKeeps ==
    ASSUME NEW s, NEW k, Orderly(s, k), NEW c \in Contacts, s.lookups[c] > 0,
           NEW successful \in BOOLEAN
    PROVE  LET p == s.processorOf[c]
               u == [s EXCEPT !.lookups[c] = @ - 1]
               t == [u EXCEPT !.processorOf[c] = None,
                              !.processor[p].missing = @ \ {c},
                              !.processor[p].failed = @ \/ ~successful]
               r == IF t.processor[p].missing = {} THEN ProcessorFinishes(t, p) ELSE t
           IN  p \in Ids /\ Orderly(r, k) /\ r.handed = s.handed
<1> DEFINE p == s.processorOf[c]
           u == [s EXCEPT !.lookups[c] = @ - 1]
           t == [u EXCEPT !.processorOf[c] = None,
                          !.processor[p].missing = @ \ {c},
                          !.processor[p].failed = @ \/ ~successful]
           r == IF t.processor[p].missing = {} THEN ProcessorFinishes(t, p) ELSE t
           of == [s.processorOf EXCEPT ![c] = None]
           entry == [s.processor[p] EXCEPT !.missing = @ \ {c},
                                           !.failed = @ \/ ~successful]
           all == [s.processor EXCEPT ![p] = entry]
           running == [s.lookups EXCEPT ![c] = s.lookups[c] - 1]
<1>1. /\ s \in Net /\ p \in Ids /\ s.lookups[c] = 1 /\ c \in s.processor[p].missing
  <2>1. s \in Net /\ p \in Ids \cup {None}
    BY DEF Orderly, Sound, Net
  <2>2. /\ s.lookups[c] = IF p = None THEN 0 ELSE 1
        /\ \A q \in Ids : c \in s.processor[q].missing <=> q = p
    BY DEF Orderly, Sound, ProcessorsMatch
  <2>3. p # None
    BY <2>2
  <2> QED
    BY <2>1, <2>2, <2>3
<1>2. /\ entry \in [missing : SUBSET Contacts, group : Groups \cup {NoGroup},
                    failed : BOOLEAN, queue : Seq(Messages)]
      /\ entry.missing = s.processor[p].missing \ {c}
      /\ entry.group = s.processor[p].group
  BY <1>1 DEF Net
<1>3. t = [s EXCEPT !.lookups = running, !.processorOf = of, !.processor = all]
  BY <1>1 DEF Net
<1> HIDE DEF entry
<1>4. /\ of \in [Contacts -> Ids \cup {None}] /\ running \in [Contacts -> Nat]
      /\ all \in [Ids -> [missing : SUBSET Contacts, group : Groups \cup {NoGroup},
                          failed : BOOLEAN, queue : Seq(Messages)]]
      /\ of[c] = None /\ running[c] = 0
      /\ \A d \in Contacts : d # c => of[d] = s.processorOf[d] /\ running[d] = s.lookups[d]
      /\ all[p] = entry /\ \A q \in Ids : q # p => all[q] = s.processor[q]
  BY <1>1, <1>2 DEF Net
<1> HIDE DEF of, all, running, u, t, r
<1>5. /\ t.processorOf = of /\ t.processor = all /\ t.lookups = running
      /\ t.groupProcessor = s.groupProcessor /\ t.tasks = s.tasks
      /\ t.handed = s.handed /\ t.crashed = s.crashed /\ t \in Net
  BY <1>1, <1>3, <1>4 DEF Net
<1>6. ASSUME NEW d \in Contacts
      PROVE  /\ t.lookups[d] = IF t.processorOf[d] = None THEN 0 ELSE 1
             /\ \A q \in Ids : d \in t.processor[q].missing <=> q = t.processorOf[d]
  <2>1. /\ s.lookups[d] = IF s.processorOf[d] = None THEN 0 ELSE 1
        /\ \A q \in Ids : d \in s.processor[q].missing <=> q = s.processorOf[d]
    BY DEF Orderly, Sound, ProcessorsMatch
  <2>2. CASE d = c
    <3>1. \A q \in Ids : c \notin t.processor[q].missing
      BY <1>2, <1>4, <1>5, <2>1, <2>2
    <3> QED
      BY <1>4, <1>5, <2>2, <3>1, IdsAreNumbers
  <2>3. CASE d # c
    <3>1. \A q \in Ids : d \in t.processor[q].missing <=> d \in s.processor[q].missing
      BY <1>2, <1>4, <1>5, <2>3
    <3> QED
      BY <1>4, <1>5, <2>1, <2>3, <3>1
  <2> QED
    BY <2>2, <2>3
<1>7. \A q \in Ids : t.processor[q].group = s.processor[q].group
  BY <1>2, <1>4, <1>5
<1>8. ASSUME NEW q \in Ids
      PROVE  /\ q # p /\ t.processor[q].missing = {} =>
                   t.processor[q].queue = <<>> /\ t.processor[q].group = NoGroup
             /\ t.processor[q].group # NoGroup =>
                   t.groupProcessor[t.processor[q].group] = q
  BY <1>4, <1>5, <1>7 DEF Orderly, Sound, ProcessorsMatch
<1>9. ASSUME NEW g \in Groups, t.groupProcessor[g] # None
      PROVE  t.processor[t.groupProcessor[g]].group = g
  BY <1>5, <1>7, <1>9 DEF Orderly, Sound, ProcessorsMatch, Net
<1>10. MatchBut(t, p)
  BY <1>6, <1>8, <1>9 DEF MatchBut
<1>11. Sound(r) /\ r.processorOf = of /\ r.tasks = s.tasks
       /\ r.handed = s.handed /\ r.crashed = s.crashed
  <2>1. CASE t.processor[p].missing = {}
    BY <1>1, <1>5, <1>10, <2>1, ProcessorFinishesKeeps DEF r
  <2>2. CASE t.processor[p].missing # {}
    <3>1. ProcessorsMatch(t)
      BY <1>10, <2>2 DEF MatchBut, ProcessorsMatch
    <3> QED
      BY <1>5, <2>2, <3>1 DEF r, Sound
  <2> QED
    BY <2>1, <2>2
<1>12. TasksAreSettled(r, k)
  <2> SUFFICES ASSUME NEW i \in DOMAIN s.tasks, NEW d \in Concerned(s.tasks[i][1])
               PROVE  d \in k /\ of[d] = None
    BY <1>11 DEF TasksAreSettled
  <2>1. d \in k /\ s.processorOf[d] = None
    BY DEF Orderly, TasksAreSettled
  <2>2. d \in Contacts
    <3>1. s.tasks[i] \in Messages \X (Nat \ {0})
      BY <1>1, ElementsOf DEF Net
    <3> QED
      BY <3>1, MessageFacts
  <2> QED
    BY <1>4, <2>1, <2>2
<1>13. HandedAreKnown(r, k)
  BY <1>11 DEF Orderly, HandedAreKnown
<1>14. Orderly(r, k)
  BY <1>11, <1>12, <1>13 DEF Orderly
<1> QED
  BY <1>1, <1>11, <1>14 DEF r, t, u

LEMMA RemoveAtElements ==
    ASSUME NEW S, NEW s \in Seq(S), NEW i \in DOMAIN s
    PROVE  /\ RemoveAt(s, i) \in Seq(S)
           /\ \A j \in DOMAIN RemoveAt(s, i) : \E h \in DOMAIN s : RemoveAt(s, i)[j] = s[h]
<1> DEFINE a == SubSeq(s, 1, i - 1)
           b == SubSeq(s, i + 1, Len(s))
<1>1. /\ Len(s) \in Nat /\ DOMAIN s = 1 .. Len(s) /\ i \in 1 .. Len(s)
      /\ \A h \in 1 .. Len(s) : s[h] \in S
  BY LenProperties, ElementOfSeq
<1>2. /\ a \in Seq(S) /\ Len(a) = i - 1
      /\ \A j \in 1 .. i - 1 : a[j] = s[j]
  <2>1. \A h \in 1 .. i - 1 : s[h] \in S
    BY <1>1
  <2> QED
    BY <1>1, <2>1, SubSeqProperties
<1>3. /\ b \in Seq(S) /\ Len(b) = Len(s) - i
      /\ \A j \in 1 .. Len(s) - i : b[j] = s[i + j]
  <2>1. \A h \in i + 1 .. Len(s) : s[h] \in S
    BY <1>1
  <2> QED
    BY <1>1, <2>1, SubSeqProperties
<1> HIDE DEF a, b
<1>4. /\ a \o b \in Seq(S) /\ Len(a \o b) = Len(a) + Len(b)
      /\ \A j \in 1 .. Len(a) + Len(b) :
             (a \o b)[j] = IF j <= Len(a) THEN a[j] ELSE b[j - Len(a)]
  BY <1>2, <1>3, ConcatProperties
<1>5. RemoveAt(s, i) = a \o b
  BY DEF RemoveAt, a, b
<1>6. ASSUME NEW j \in DOMAIN (a \o b)
      PROVE  \E h \in DOMAIN s : (a \o b)[j] = s[h]
  <2>1. j \in 1 .. Len(s) - 1
    BY <1>1, <1>2, <1>3, <1>4, LenProperties
  <2>2. CASE j <= i - 1
    <3>1. (a \o b)[j] = s[j]
      BY <1>1, <1>2, <1>3, <1>4, <2>1, <2>2
    <3> QED
      BY <1>1, <2>1, <3>1
  <2>3. CASE ~(j <= i - 1)
    <3>1. j - (i - 1) \in 1 .. Len(s) - i
      BY <1>1, <2>1, <2>3
    <3>2. (a \o b)[j] = b[j - (i - 1)]
      BY <1>1, <1>2, <1>3, <1>4, <2>1, <2>3
    <3>3. b[j - (i - 1)] = s[i + (j - (i - 1))]
      BY <1>3, <3>1
    <3>4. i + (j - (i - 1)) = j + 1 /\ j + 1 \in DOMAIN s
      BY <1>1, <2>1
    <3> QED
      BY <3>2, <3>3, <3>4
  <2> QED
    BY <2>2, <2>3
<1> QED
  BY <1>4, <1>5, <1>6

LEMMA WithoutTaskKeeps ==
    ASSUME NEW s, NEW k, Orderly(s, k), NEW i \in DOMAIN s.tasks
    PROVE  /\ Orderly([s EXCEPT !.tasks = RemoveAt(@, i)], k)
           /\ [s EXCEPT !.tasks = RemoveAt(@, i)].processorOf = s.processorOf
           /\ [s EXCEPT !.tasks = RemoveAt(@, i)].groupProcessor = s.groupProcessor
           /\ [s EXCEPT !.tasks = RemoveAt(@, i)].handed = s.handed
<1> DEFINE q == RemoveAt(s.tasks, i)
           r == [s EXCEPT !.tasks = q]
<1>1. s \in Net /\ s.tasks \in Seq(Messages \X (Nat \ {0}))
  BY DEF Orderly, Sound, Net
<1>2. /\ q \in Seq(Messages \X (Nat \ {0}))
      /\ \A j \in DOMAIN q : \E h \in DOMAIN s.tasks : q[j] = s.tasks[h]
  BY <1>1, RemoveAtElements
<1> HIDE DEF q
<1>3. /\ r.processorOf = s.processorOf /\ r.groupProcessor = s.groupProcessor
      /\ r.processor = s.processor /\ r.lookups = s.lookups /\ r.handed = s.handed
      /\ r.crashed = s.crashed /\ r.tasks = q /\ r \in Net
  BY <1>1, <1>2 DEF Net
<1> HIDE DEF r
<1>4. ProcessorsMatch(r)
  BY <1>3 DEF Orderly, Sound, ProcessorsMatch
<1>5. TasksAreSettled(r, k)
  BY <1>2, <1>3 DEF Orderly, TasksAreSettled
<1>6. Orderly(r, k)
  BY <1>3, <1>4, <1>5 DEF Orderly, Sound, HandedAreKnown
<1> QED
  BY <1>3, <1>6 DEF r, q

LEMMA WithBacklogKeeps ==
    ASSUME NEW s, NEW k, Orderly(s, k), s.backlog # <<>>
    PROVE  /\ Orderly([s EXCEPT !.backlog = Tail(@)], k)
           /\ Head(s.backlog) \in Messages
           /\ [s EXCEPT !.backlog = Tail(@)].processorOf = s.processorOf
           /\ [s EXCEPT !.backlog = Tail(@)].groupProcessor = s.groupProcessor
           /\ [s EXCEPT !.backlog = Tail(@)].handed = s.handed
<1> DEFINE q == Tail(s.backlog)
           r == [s EXCEPT !.backlog = q]
<1>1. s \in Net /\ s.backlog \in Seq(Messages)
  BY DEF Orderly, Sound, Net
<1>2. q \in Seq(Messages) /\ Head(s.backlog) \in Messages
  BY <1>1, HeadTailProperties
<1> HIDE DEF q
<1>3. /\ r.processorOf = s.processorOf /\ r.groupProcessor = s.groupProcessor
      /\ r.processor = s.processor /\ r.lookups = s.lookups /\ r.handed = s.handed
      /\ r.crashed = s.crashed /\ r.tasks = s.tasks /\ r \in Net
  BY <1>1, <1>2 DEF Net
<1> HIDE DEF r
<1>4. ProcessorsMatch(r)
  BY <1>3 DEF Orderly, Sound, ProcessorsMatch
<1>5. Orderly(r, k)
  BY <1>3, <1>4 DEF Orderly, Sound, TasksAreSettled, HandedAreKnown
<1> QED
  BY <1>2, <1>3, <1>5 DEF r, q

-----------------------------------------------------------------------------
(* What is handed over, and when.                                          *)

LEMMA HoldingBackHandsNothing ==
    ASSUME NEW s \in Net
    PROVE  /\ \A p, m : EnqueueMessage(s, p, m).handed = s.handed
           /\ \A missing, g, m : NewProcessor(s, missing, g, m).handed = s.handed
           /\ \A c, m : WaitForMissingIdentity(s, c, m).handed = s.handed
<1>1. \A p, m : EnqueueMessage(s, p, m).handed = s.handed
  BY DEF EnqueueMessage, Net
<1>2. \A missing, g, m : NewProcessor(s, missing, g, m).handed = s.handed
  BY DEF NewProcessor, Net
<1> QED
  BY <1>1, <1>2 DEF WaitForMissingIdentity

LEMMA HandOverHandsOne ==
    ASSUME NEW s \in Net, NEW m \in Messages, NEW n \in Messages, n # m
    PROVE  HandOver(s, m).handed[n] = s.handed[n]
  BY DEF HandOver, Net

(* Only the message itself is handed over, and only when nobody waits for  *)
(* its owner or its group.                                                 *)
LEMMA HandleOpenedHands ==
    ASSUME NEW s \in Net, NEW m \in Messages, NEW left \in Nat, NEW sealed,
           NEW n \in Messages, HandleOpened(s, m, left, sealed).handed[n] # s.handed[n]
    PROVE  /\ n = m
           /\ GroupOf[m] # NoGroup =>
                 ~Waiting(s, Owner[GroupOf[m]]) /\ s.groupProcessor[GroupOf[m]] = None
<1> DEFINE g == GroupOf[m]
           waits == g # NoGroup /\ NeedsToWait(s, Owner[g])
           groupWaits == g # NoGroup /\ s.groupProcessor[g] # None
           r == HandleOpened(s, m, left, sealed)
<1>1. CASE waits
  <2>1. [s EXCEPT !.crashed = TRUE].handed = s.handed
    BY DEF Net
  <2>2. r = IF sealed THEN WaitForMissingIdentity(s, Owner[g], m)
            ELSE [s EXCEPT !.crashed = TRUE]
    BY <1>1 DEF HandleOpened
  <2>3. r.handed = s.handed
    BY <2>1, <2>2, HoldingBackHandsNothing
  <2> QED
    BY <2>3
<1>2. CASE ~waits /\ groupWaits
  <2>1. r = IF sealed THEN EnqueueMessage(s, s.groupProcessor[g], m) ELSE s
    BY <1>2 DEF HandleOpened
  <2>2. r.handed = s.handed
    BY <2>1, HoldingBackHandsNothing
  <2> QED
    BY <2>2
<1>3. CASE ~waits /\ ~groupWaits
  <2>1. n = m
    <3>1. CASE left > 0
      <4>1. [s EXCEPT !.tasks = Append(@, <<m, left>>)].handed = s.handed
        BY DEF Net
      <4>2. r = [s EXCEPT !.tasks = Append(@, <<m, left>>)]
        BY <1>3, <3>1 DEF HandleOpened
      <4>3. r.handed = s.handed
        BY <4>1, <4>2
      <4> QED
        BY <4>3
    <3>2. CASE ~(left > 0) /\ m \in Creations
      <4> DEFINE missing == MembersIn[m] \ known
                 first == FirstWaiting(s, MembersIn[m])
                 t == NewProcessor(s, missing, g, m)
                 u == [t EXCEPT !.groupProcessor[g] =
                           t.processorOf[CHOOSE c \in missing : TRUE]]
      <4>1. t.handed = s.handed
        BY HoldingBackHandsNothing
      <4>2. u.handed = t.handed
        BY DEF NewProcessor, Net
      <4> HIDE DEF t, u
      <4>3. \/ r = EnqueueMessage(s, s.processorOf[first], m)
            \/ r = HandOver(s, m)
            \/ r = u
        BY <1>3, <3>2 DEF HandleOpened, HandleGroupCreation, t, u
      <4> HIDE DEF r, first
      <4> QED
        BY <4>1, <4>2, <4>3, HoldingBackHandsNothing, HandOverHandsOne DEF r
    <3>3. CASE ~(left > 0) /\ m \notin Creations
      <4>1. r = HandOver(s, m)
        BY <1>3, <3>3 DEF HandleOpened
      <4> QED
        BY <4>1, HandOverHandsOne
    <3> QED
      BY <3>1, <3>2, <3>3
  <2> QED
    BY <1>3, <2>1 DEF NeedsToWait
<1> QED
  BY <1>1, <1>2, <1>3

LEMMA HandleIncomingMessageHands ==
    ASSUME NEW s \in Net, NEW m \in Messages, NEW n \in Messages,
           HandleIncomingMessage(s, m).handed[n] # s.handed[n]
    PROVE  /\ n = m
           /\ \A c \in Concerned(m) : ~Waiting(s, c)
           /\ GroupOf[m] # NoGroup => s.groupProcessor[GroupOf[m]] = None
<1>1. ~NeedsToWait(s, Sender[m])
  BY HoldingBackHandsNothing DEF HandleIncomingMessage
<1>2. HandleIncomingMessage(s, m) = HandleOpened(s, m, Downloads[m], TRUE)
  BY <1>1 DEF HandleIncomingMessage
<1>3. PICK left \in Nat, sealed \in BOOLEAN :
          HandleOpened(s, m, left, sealed).handed[n] # s.handed[n]
  BY <1>2, MessageFacts
<1>4. /\ n = m
      /\ GroupOf[m] # NoGroup =>
            ~Waiting(s, Owner[GroupOf[m]]) /\ s.groupProcessor[GroupOf[m]] = None
  BY <1>3, HandleOpenedHands
<1> QED
  BY <1>1, <1>4 DEF NeedsToWait, Concerned

-----------------------------------------------------------------------------
(* The table of contacts.                                                  *)

LEMMA OrderlyWithMore ==
    ASSUME NEW s, NEW k, NEW more, Orderly(s, k), k \subseteq more
    PROVE  Orderly(s, more)
  BY DEF Orderly, TasksAreSettled, HandedAreKnown

(* Executing calls never takes a contact out of the table. *)
LEMMA AskDatabaseKeeps ==
    ASSUME TypeOK, AskDatabase
    PROVE  /\ dbq' = <<>>
           /\ nickname' \in [Contacts -> {"absent", "", "chosen"}]
           /\ \A c \in Contacts : nickname[c] # "absent" => nickname'[c] # "absent"
<1>1. ASSUME NEW c \in Contacts
      PROVE  /\ FinalName(c) \in {"absent", "", "chosen"}
             /\ nickname[c] # "absent" => FinalName(c) # "absent"
  <2>1. \A call : NameAfter(call) \in {"", "chosen"}
    BY DEF NameAfter
  <2>2. FinalName(c) = nickname[c] \/ FinalName(c) \in {"", "chosen"}
    BY <2>1 DEF FinalName
  <2> QED
    BY <2>2 DEF TypeOK
<1> QED
  BY <1>1 DEF AskDatabase

-----------------------------------------------------------------------------
(* The invariant.                                                          *)

LEMMA IdInvInit == Init => IdInv
<1> SUFFICES ASSUME Init
             PROVE  IdInv
  OBVIOUS
<1>1. NewClient \in Net
  BY DEF NewClient, Net, Empty
<1>2. /\ NewClient.processorOf = [c \in Contacts |-> None]
      /\ NewClient.groupProcessor = [g \in Groups |-> None]
      /\ NewClient.processor = [p \in Ids |-> Empty]
      /\ NewClient.lookups = [c \in Contacts |-> 0]
      /\ NewClient.tasks = <<>> /\ NewClient.handed = [m \in Messages |-> 0]
      /\ NewClient.crashed = FALSE
  BY DEF NewClient
<1>3. Orderly(NewClient, known)
  <2>1. ProcessorsMatch(NewClient)
    BY <1>2, IdsAreNumbers DEF ProcessorsMatch, Empty
  <2>2. TasksAreSettled(NewClient, known)
    BY <1>2 DEF TasksAreSettled
  <2>3. HandedAreKnown(NewClient, known)
    BY <1>2 DEF HandedAreKnown
  <2> QED
    BY <1>1, <1>2, <2>1, <2>2, <2>3 DEF Orderly, Sound
<1>4. posted \in Seq(Messages) /\ Range(posted) \subseteq Messages
  <2>1. PICK n \in 0 .. Cardinality(Messages) : posted \in [1 .. n -> Messages]
    BY DEF Init
  <2>2. n \in Nat
    BY <2>1, FS_CardinalityType, IdentitiesAssumption
  <2> QED
    BY <2>1, <2>2, SeqOfFunction DEF Range
<1>5. TypeOK
  <2>1. /\ <<>> \in Seq(Contacts) /\ <<>> \in Seq({"add", "name"} \X Contacts)
        /\ dialog \in Contacts \cup {Nobody}
        /\ nickname \in [Contacts -> {"absent", "", "chosen"}]
    BY EmptySeq DEF Init
  <2> QED
    BY <1>1, <1>4, <2>1, IdentitiesAssumption DEF Init, TypeOK
<1> QED
  BY <1>3, <1>5, IdentitiesAssumption DEF Init, IdInv

LEMMA DeliverMessageKeeps == IdInv /\ DeliverMessage => IdInv'
<1> SUFFICES ASSUME IdInv, DeliverMessage
             PROVE  IdInv'
  OBVIOUS
<1>1. PICK i \in DOMAIN posted : net' = HandleIncomingMessage(net, posted[i])
                                 /\ coming' = coming \ {posted[i]}
  BY DEF DeliverMessage
<1>2. posted[i] \in Messages
  BY ElementsOf DEF IdInv, TypeOK
<1>3. Orderly(net', known)
  BY <1>1, <1>2, HandleIncomingMessageKeeps DEF IdInv
<1>4. TypeOK'
  BY <1>1, <1>3 DEF IdInv, TypeOK, DeliverMessage, dbVars, Orderly, Sound
<1> QED
  BY <1>3, <1>4 DEF IdInv, DeliverMessage, dbVars

LEMMA HandleQueuedMessageKeeps == IdInv /\ HandleQueuedMessage => IdInv'
<1> SUFFICES ASSUME IdInv, HandleQueuedMessage
             PROVE  IdInv'
  OBVIOUS
<1> DEFINE s == [net EXCEPT !.backlog = Tail(@)]
<1>1. Orderly(s, known) /\ Head(net.backlog) \in Messages
  BY WithBacklogKeeps DEF IdInv, HandleQueuedMessage
<1>2. net' = HandleIncomingMessage(s, Head(net.backlog))
  BY DEF HandleQueuedMessage
<1> HIDE DEF s
<1>3. Orderly(net', known)
  BY <1>1, <1>2, HandleIncomingMessageKeeps
<1>4. TypeOK'
  BY <1>3 DEF IdInv, TypeOK, HandleQueuedMessage, dbVars, serverVars, Orderly, Sound
<1> QED
  BY <1>3, <1>4 DEF IdInv, HandleQueuedMessage, dbVars

LEMMA LookupStep ==
    ASSUME IdInv, NEW c \in Contacts, NEW successful \in BOOLEAN,
           LookupFinishes(c, successful)
    PROVE  IdInv' /\ net'.handed = net.handed
<1> DEFINE p == net.processorOf[c]
           u == [net EXCEPT !.lookups[c] = @ - 1]
           t == [u EXCEPT !.processorOf[c] = None,
                          !.processor[p].missing = @ \ {c},
                          !.processor[p].failed = @ \/ ~successful]
           r == IF t.processor[p].missing = {} THEN ProcessorFinishes(t, p) ELSE t
<1>1. p \in Ids /\ Orderly(r, known) /\ r.handed = net.handed
  <2>1. Orderly(net, known) /\ net.lookups[c] > 0
    BY DEF IdInv, LookupFinishes
  <2> QED
    BY <2>1, LookupFinishesKeeps
<1>2. p # None
  BY <1>1, IdsAreNumbers
<1>3. net' = r
  BY <1>2 DEF LookupFinishes
<1> HIDE DEF p, u, t, r
<1>4. centerq' \in Seq(Contacts)
  BY SeqAppend DEF IdInv, TypeOK, LookupFinishes
<1>5. TypeOK'
  BY <1>1, <1>3, <1>4 DEF IdInv, TypeOK, LookupFinishes, serverVars, Orderly, Sound
<1> QED
  BY <1>1, <1>3, <1>5 DEF IdInv, LookupFinishes

LEMMA DownloadStep ==
    ASSUME IdInv, NEW i \in DOMAIN net.tasks, NEW successful \in BOOLEAN,
           DownloadFinishes(i, successful)
    PROVE  /\ IdInv'
           /\ \A n \in Messages : net'.handed[n] # net.handed[n] =>
                 /\ \A c \in Concerned(n) : ~Waiting(net, c)
                 /\ GroupOf[n] # NoGroup => net.groupProcessor[GroupOf[n]] = None
<1> DEFINE m == net.tasks[i][1]
           left == net.tasks[i][2] - 1
           s == [net EXCEPT !.tasks = RemoveAt(@, i)]
<1>1. m \in Messages /\ left \in Nat
  <2>1. net.tasks \in Seq(Messages \X (Nat \ {0}))
    BY DEF IdInv, TypeOK, Net
  <2>2. net.tasks[i] \in Messages \X (Nat \ {0})
    BY <2>1, ElementsOf
  <2> QED
    BY <2>2
<1>2. \A c \in Concerned(m) : c \in known /\ net.processorOf[c] = None
  BY DEF IdInv, Orderly, TasksAreSettled
<1>3. /\ Orderly(s, known) /\ s.processorOf = net.processorOf
      /\ s.groupProcessor = net.groupProcessor /\ s.handed = net.handed
  BY WithoutTaskKeeps DEF IdInv
<1>4. net' = IF successful THEN HandleOpened(s, m, left, FALSE) ELSE s
  BY DEF DownloadFinishes
<1> HIDE DEF m, left, s
<1>5. \A c \in Concerned(m) : ~NeedsToWait(s, c) /\ ~Waiting(s, c)
  BY <1>2, <1>3 DEF NeedsToWait, Waiting
<1>6. Sender[m] \in known /\ ~Waiting(s, Sender[m])
  BY <1>2, <1>5 DEF Concerned
<1>7. Orderly(net', known)
  <2>1. Orderly(HandleOpened(s, m, left, FALSE), known)
    BY <1>1, <1>3, <1>5, <1>6, HandleOpenedKeeps
  <2> QED
    BY <1>3, <1>4, <2>1
<1>8. ASSUME NEW n \in Messages, net'.handed[n] # net.handed[n]
      PROVE  /\ \A c \in Concerned(n) : ~Waiting(net, c)
             /\ GroupOf[n] # NoGroup => net.groupProcessor[GroupOf[n]] = None
  <2>1. PICK sealed \in BOOLEAN :
            HandleOpened(s, m, left, sealed).handed[n] # s.handed[n] /\ s \in Net
    BY <1>3, <1>4, <1>8 DEF Orderly, Sound
  <2>2. /\ n = m
        /\ GroupOf[m] # NoGroup => s.groupProcessor[GroupOf[m]] = None
    BY <1>1, <2>1, HandleOpenedHands
  <2> QED
    BY <1>3, <1>5, <2>2 DEF Waiting
<1>9. TypeOK'
  BY <1>7 DEF IdInv, TypeOK, DownloadFinishes, dbVars, serverVars, Orderly, Sound
<1>10. IdInv'
  BY <1>7, <1>9 DEF IdInv, DownloadFinishes, dbVars
<1> QED
  BY <1>8, <1>10

LEMMA OnContactChangedKeeps == IdInv /\ OnContactChanged => IdInv'
<1> SUFFICES ASSUME IdInv, OnContactChanged
             PROVE  IdInv'
  OBVIOUS
<1>1. /\ dbq' = <<>> /\ nickname' \in [Contacts -> {"absent", "", "chosen"}]
      /\ \A c \in Contacts : nickname[c] # "absent" => nickname'[c] # "absent"
  BY AskDatabaseKeeps DEF IdInv, OnContactChanged
<1>2. known \subseteq known' /\ known' \subseteq Contacts
      /\ \A c \in known' : nickname'[c] # "absent"
  BY <1>1 DEF IdInv, TypeOK, OnContactChanged
<1>3. Orderly(net, known')
  BY <1>2, OrderlyWithMore DEF IdInv
<1>4. net' = net /\ Orderly(net', known')
  BY <1>3 DEF OnContactChanged
<1>5. outdated' \in BOOLEAN /\ dbq' \in Seq({"add", "name"} \X Contacts)
  BY <1>1, EmptySeq DEF OnContactChanged
<1>6. TypeOK'
  BY <1>1, <1>2, <1>4, <1>5 DEF IdInv, TypeOK, OnContactChanged, serverVars, Orderly, Sound
<1> QED
  BY <1>2, <1>4, <1>6 DEF IdInv

LEMMA NewSessionIs ==
    ASSUME TypeOK, NewSession
    PROVE  posted' = posted /\ coming' \subseteq Messages /\ acked' \subseteq Messages
<1>1. Range(posted) \subseteq Messages
  BY ElementsOf DEF TypeOK, Range
<1> QED
  BY <1>1 DEF TypeOK, NewSession, HandedOver

LEMMA ReconnectKeeps == IdInv /\ Reconnect => IdInv'
<1> SUFFICES ASSUME IdInv, Reconnect
             PROVE  IdInv'
  OBVIOUS
<1>1. posted' = posted /\ coming' \subseteq Messages /\ acked' \subseteq Messages
  BY NewSessionIs DEF IdInv, Reconnect
<1>2. TypeOK'
  BY <1>1 DEF IdInv, TypeOK, Reconnect, dbVars
<1> QED
  BY <1>2 DEF IdInv, Reconnect, dbVars

LEMMA ReplaceClientKeeps == IdInv /\ ReplaceClient => IdInv'
<1> SUFFICES ASSUME IdInv, ReplaceClient
             PROVE  IdInv'
  OBVIOUS
<1>1. posted' = posted /\ coming' \subseteq Messages /\ acked' \subseteq Messages
  BY NewSessionIs DEF IdInv, ReplaceClient
<1>2. /\ dbq' = <<>> /\ nickname' \in [Contacts -> {"absent", "", "chosen"}]
      /\ \A c \in Contacts : nickname[c] # "absent" => nickname'[c] # "absent"
  BY AskDatabaseKeeps DEF IdInv, ReplaceClient
<1>3. known \subseteq known' /\ known' \subseteq Contacts
      /\ \A c \in known' : nickname'[c] # "absent"
  BY <1>2 DEF IdInv, TypeOK, ReplaceClient
<1>4. net.handed \in [Messages -> Nat]
  BY DEF IdInv, TypeOK, Net
<1>5. net' = [NewClient EXCEPT !.handed = net.handed]
  BY DEF ReplaceClient
<1>6. /\ net'.processorOf = [c \in Contacts |-> None]
      /\ net'.groupProcessor = [g \in Groups |-> None]
      /\ net'.processor = [p \in Ids |-> Empty]
      /\ net'.lookups = [c \in Contacts |-> 0]
      /\ net'.tasks = <<>> /\ net'.handed = net.handed
      /\ net'.crashed = FALSE /\ net' \in Net
  <2>1. Empty \in [missing : SUBSET Contacts, group : Groups \cup {NoGroup},
                   failed : BOOLEAN, queue : Seq(Messages)]
    BY DEF Empty
  <2>2. [p \in Ids |-> Empty] \in
            [Ids -> [missing : SUBSET Contacts, group : Groups \cup {NoGroup},
                     failed : BOOLEAN, queue : Seq(Messages)]]
    BY <2>1
  <2>3. <<>> \in Seq(Messages) /\ <<>> \in Seq(Messages \X (Nat \ {0}))
    BY EmptySeq
  <2> QED
    BY <1>4, <1>5, <2>2, <2>3 DEF NewClient, Net
<1>7. ProcessorsMatch(net')
  BY <1>6, IdsAreNumbers DEF ProcessorsMatch, Empty
<1>8. HandedAreKnown(net', known')
  BY <1>3, <1>6 DEF IdInv, Orderly, HandedAreKnown
<1>9. Orderly(net', known')
  BY <1>6, <1>7, <1>8 DEF Orderly, Sound, TasksAreSettled
<1>10. dbq' \in Seq({"add", "name"} \X Contacts)
  BY <1>2, EmptySeq
<1>11. TypeOK'
  BY <1>1, <1>2, <1>3, <1>6, <1>10 DEF IdInv, TypeOK, ReplaceClient
<1> QED
  BY <1>3, <1>9, <1>11 DEF IdInv

LEMMA AddNewContactKeeps == IdInv /\ AddNewContact => IdInv'
<1> SUFFICES ASSUME IdInv, AddNewContact
             PROVE  IdInv'
  OBVIOUS
<1>1. Head(centerq) \in Contacts /\ centerq' \in Seq(Contacts)
  BY HeadTailProperties DEF IdInv, TypeOK, AddNewContact
<1>2. dbq' \in Seq({"add", "name"} \X Contacts)
  BY <1>1, SeqAppend DEF IdInv, TypeOK, AddNewContact
<1>3. TypeOK'
  BY <1>1, <1>2 DEF IdInv, TypeOK, AddNewContact, serverVars
<1> QED
  BY <1>3 DEF IdInv, AddNewContact

LEMMA ExecuteCallKeeps == IdInv /\ ExecuteCall => IdInv'
<1> SUFFICES ASSUME IdInv, ExecuteCall
             PROVE  IdInv'
  OBVIOUS
<1>1. Head(dbq) \in {"add", "name"} \X Contacts /\ dbq' \in Seq({"add", "name"} \X Contacts)
  BY HeadTailProperties DEF IdInv, TypeOK, ExecuteCall
<1>2. NameAfter(Head(dbq)) \in {"", "chosen"}
  BY DEF NameAfter
<1>3. /\ nickname' \in [Contacts -> {"absent", "", "chosen"}]
      /\ \A c \in Contacts : nickname[c] # "absent" => nickname'[c] # "absent"
  BY <1>1, <1>2 DEF IdInv, TypeOK, ExecuteCall
<1>4. TypeOK'
  BY <1>1, <1>3 DEF IdInv, TypeOK, ExecuteCall, serverVars
<1> QED
  BY <1>3, <1>4 DEF IdInv, TypeOK, ExecuteCall

LEMMA AskForContactKeeps ==
    ASSUME IdInv, NEW c \in Contacts, AskForContact(c)
    PROVE  IdInv'
<1>1. /\ dbq' = <<>> /\ nickname' \in [Contacts -> {"absent", "", "chosen"}]
      /\ \A d \in Contacts : nickname[d] # "absent" => nickname'[d] # "absent"
  BY AskDatabaseKeeps DEF IdInv, AskForContact
<1>2. dbq' \in Seq({"add", "name"} \X Contacts) /\ outdated' \in BOOLEAN
  BY <1>1, EmptySeq DEF AskForContact, IdInv, TypeOK
<1>3. TypeOK'
  BY <1>1, <1>2 DEF IdInv, TypeOK, AskForContact, serverVars
<1> QED
  BY <1>1, <1>3 DEF IdInv, TypeOK, AskForContact

LEMMA ContactEnteredKeeps ==
    ASSUME IdInv, NEW successful \in BOOLEAN, ContactEntered(successful)
    PROVE  IdInv'
<1>1. dialog \in Contacts
  BY DEF IdInv, TypeOK, ContactEntered
<1>2. << <<"add", dialog>>, <<"name", dialog>> >> \in Seq({"add", "name"} \X Contacts)
  BY <1>1
<1>3. dbq' \in Seq({"add", "name"} \X Contacts)
  BY <1>2, SeqConcat DEF IdInv, TypeOK, ContactEntered
<1>4. TypeOK'
  BY <1>3 DEF IdInv, TypeOK, ContactEntered, serverVars
<1> QED
  BY <1>4 DEF IdInv, ContactEntered

LEMMA IdInvStep == IdInv /\ [~net.crashed /\ Next]_vars => IdInv'
<1> SUFFICES ASSUME IdInv, [~net.crashed /\ Next]_vars
             PROVE  IdInv'
  OBVIOUS
<1>1. CASE DeliverMessage
  BY <1>1, DeliverMessageKeeps
<1>2. CASE HandleQueuedMessage
  BY <1>2, HandleQueuedMessageKeeps
<1>3. CASE TaskStep
  BY <1>3, LookupStep, DownloadStep DEF TaskStep
<1>4. CASE OnContactChanged
  BY <1>4, OnContactChangedKeeps
<1>5. CASE AddNewContact
  BY <1>5, AddNewContactKeeps
<1>6. CASE ExecuteCall
  BY <1>6, ExecuteCallKeeps
<1>7. CASE \E c \in Contacts : AskForContact(c)
  BY <1>7, AskForContactKeeps
<1>8. CASE \E successful \in BOOLEAN : ContactEntered(successful)
  BY <1>8, ContactEnteredKeeps
<1>9. CASE Reconnect
  BY <1>9, ReconnectKeeps
<1>10. CASE ReplaceClient
  BY <1>10, ReplaceClientKeeps
<1>11. CASE UNCHANGED vars
  BY <1>11 DEF vars, dbVars, serverVars, IdInv, TypeOK
<1> QED
  BY <1>1, <1>2, <1>3, <1>4, <1>5, <1>6, <1>7, <1>8, <1>9, <1>10, <1>11 DEF Next

LEMMA IdInvAlways == Spec => []IdInv
<1> QED
  BY IdInvInit, IdInvStep, PTL DEF Spec

-----------------------------------------------------------------------------
(* A contact is looked up exactly while messages wait for it, once, by the *)
(* processor that misses it, and a group has a processor only while that   *)
(* misses somebody: the tables of ProtocolClient, its processors and the   *)
(* running lookups always agree.                                           *)
THEOREM LookupsAlwaysMatchWaiters == Spec => []LookupsMatchWaiters
<1>1. IdInv => LookupsMatchWaiters
  <2> SUFFICES ASSUME IdInv
               PROVE  LookupsMatchWaiters
    OBVIOUS
  <2>1. Sound(net) /\ TypeOK
    BY DEF IdInv, Orderly
  <2>2. ASSUME NEW g \in Groups, net.groupProcessor[g] # None
        PROVE  /\ net.processor[net.groupProcessor[g]].group = g
               /\ net.processor[net.groupProcessor[g]].missing # {}
    BY <2>1, <2>2, GroupsProcessor DEF Sound, ProcessorsMatch
  <2>3. \A c \in Contacts :
            /\ net.lookups[c] = IF net.processorOf[c] = None THEN 0 ELSE 1
            /\ \A q \in Ids : c \in net.processor[q].missing <=> q = net.processorOf[c]
    BY <2>1 DEF Sound, ProcessorsMatch
  <2> QED
    BY <2>1, <2>2, <2>3 DEF LookupsMatchWaiters
<1> QED
  BY <1>1, IdInvAlways, PTL

(* The table of contacts has the sender, the group's owner and, for a      *)
(* creation, the members of every message that the message center gets,    *)
(* and a message that comes back from a download never needs the encrypted *)
(* form that it has not any more (needToWaitForMissingIdentity).           *)
THEOREM AlwaysHandedOverWithContacts == Spec => []HandedOverWithContacts
<1>1. IdInv => HandedOverWithContacts
  BY DEF IdInv, Orderly, HandedAreKnown, HandedOverWithContacts, HandedOver
<1> QED
  BY <1>1, IdInvAlways, PTL

LEMMA HandedNowIsSettled ==
    ASSUME IdInv, [~net.crashed /\ Next]_vars, NEW n \in Messages,
           net'.handed[n] # net.handed[n]
    PROVE  /\ \A c \in Concerned(n) : ~Waiting(net, c)
           /\ GroupOf[n] # NoGroup => net.groupProcessor[GroupOf[n]] = None
<1>1. CASE DeliverMessage
  <2>1. PICK i \in DOMAIN posted : net' = HandleIncomingMessage(net, posted[i])
    BY <1>1 DEF DeliverMessage
  <2>2. posted[i] \in Messages /\ net \in Net
    BY ElementsOf DEF IdInv, TypeOK
  <2> QED
    BY <2>1, <2>2, HandleIncomingMessageHands
<1>2. CASE HandleQueuedMessage
  <2> DEFINE s == [net EXCEPT !.backlog = Tail(@)]
             m == Head(net.backlog)
  <2>1. /\ Orderly(s, known) /\ m \in Messages /\ s.processorOf = net.processorOf
        /\ s.groupProcessor = net.groupProcessor /\ s.handed = net.handed
    BY <1>2, WithBacklogKeeps DEF IdInv, HandleQueuedMessage
  <2>2. net' = HandleIncomingMessage(s, m)
    BY <1>2 DEF HandleQueuedMessage
  <2> HIDE DEF s, m
  <2>3. s \in Net /\ HandleIncomingMessage(s, m).handed[n] # s.handed[n]
    BY <2>1, <2>2 DEF Orderly, Sound
  <2>4. /\ n = m /\ \A c \in Concerned(m) : ~Waiting(s, c)
        /\ GroupOf[m] # NoGroup => s.groupProcessor[GroupOf[m]] = None
    BY <2>1, <2>3, HandleIncomingMessageHands
  <2> QED
    BY <2>1, <2>4 DEF Waiting
<1>3. CASE TaskStep
  BY <1>3, LookupStep, DownloadStep DEF TaskStep
<1>4. CASE OnContactChanged \/ AddNewContact \/ ExecuteCall \/ Reconnect
           \/ (\E c \in Contacts : AskForContact(c))
           \/ (\E successful \in BOOLEAN : ContactEntered(successful))
  <2>1. net' = net
    BY <1>4 DEF OnContactChanged, AddNewContact, ExecuteCall, Reconnect, AskForContact,
                ContactEntered
  <2> QED
    BY <2>1
<1>5. CASE ReplaceClient
  <2>1. net' = [NewClient EXCEPT !.handed = net.handed]
    BY <1>5 DEF ReplaceClient
  <2>2. net'.handed = net.handed
    BY <2>1 DEF NewClient
  <2> QED
    BY <2>2
<1>6. CASE UNCHANGED vars
  BY <1>6 DEF vars
<1> QED
  BY <1>1, <1>2, <1>3, <1>4, <1>5, <1>6 DEF Next

(* A message that waits for its own sender, owner or group is overtaken by *)
(* no later message of the same conversation and sender, a creation by no  *)
(* later message of its group: whoever the processor still misses makes    *)
(* the later message wait, too.                                            *)
THEOREM NeverOvertakenInOwnProcessor == Spec => NoOvertakingInOwnProcessor
<1>1. ASSUME IdInv, [~net.crashed /\ Next]_vars, NEW p \in Ids, NEW m \in Messages,
             NEW n \in Messages, InQueue(m, p), SameThread(m, n), HandedNow(n)
      PROVE  ~WaitsForItsOwn(m, p)
  <2> DEFINE g == GroupOf[m]
  <2>1. /\ \A c \in Concerned(n) : ~Waiting(net, c)
        /\ GroupOf[n] # NoGroup => net.groupProcessor[GroupOf[n]] = None
    <3>1. net'.handed[n] # net.handed[n]
      <4>1. net.handed[n] \in Nat
        BY <1>1 DEF IdInv, TypeOK, Net
      <4> QED
        BY <1>1, <4>1 DEF HandedNow
    <3> QED
      BY <1>1, <3>1, HandedNowIsSettled
  <2>2. g = GroupOf[n]
    BY <1>1 DEF SameThread
  <2>3. Sound(net) /\ net \in Net
    BY <1>1 DEF IdInv, Orderly, Sound
  <2>4. net.processor[p].missing # {} /\ net.processor[p].missing \subseteq Contacts
    <3>1. net.processor[p].queue # <<>>
      BY <1>1, EmptySeq DEF InQueue, Range
    <3> QED
      BY <2>3, <3>1 DEF Sound, ProcessorsMatch, Net
  <2>5. PICK c \in net.processor[p].missing : c \in Contacts /\ Waiting(net, c)
    BY <2>3, <2>4, IdsAreNumbers DEF Sound, ProcessorsMatch, Waiting
  <2>6. ASSUME net.processor[p].missing \subseteq
                   {Sender[m]} \cup (IF g = NoGroup THEN {} ELSE {Owner[g]})
        PROVE  FALSE
    <3>1. c = Sender[m] \/ (g # NoGroup /\ c = Owner[g])
      BY <2>5, <2>6
    <3>2. c \in Concerned(n)
      <4>1. m \in Creations => Owner[g] = Sender[m] /\ g # NoGroup
        BY MessageFacts
      <4> QED
        BY <1>1, <2>2, <3>1, <4>1 DEF SameThread, Concerned
    <3> QED
      BY <2>1, <2>5, <3>2
  <2>7. ASSUME g # NoGroup, net.processor[p].group = g
        PROVE  FALSE
    <3>1. net.groupProcessor[g] = p
      BY <2>3, <2>7 DEF Sound, ProcessorsMatch
    <3> QED
      BY <2>1, <2>2, <2>7, <3>1, IdsAreNumbers
  <2> QED
    BY <2>6, <2>7 DEF WaitsForItsOwn
<1>2. IdInv /\ [~net.crashed /\ Next]_vars =>
          [\A p \in Ids, m, n \in Messages :
              /\ InQueue(m, p) /\ InQueue(m, p)'
              /\ Precedes(m, n) /\ SameThread(m, n)
              /\ HandedNow(n)
              => ~WaitsForItsOwn(m, p)]_vars
  BY <1>1
<1> QED
  BY <1>2, IdInvAlways, PTL DEF Spec, NoOvertakingInOwnProcessor
=============================================================================
