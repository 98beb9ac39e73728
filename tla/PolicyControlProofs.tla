-------------------------- MODULE PolicyControlProofs --------------------------
(***************************************************************************)
(* Proofs about PolicyControl for any containers, files, contents and      *)
(* bounds: whose policy is enforced, that it is never missing, that none   *)
(* is left behind, and that the tables of the controller agree; and, at    *)
(* the end, about KernelPolicy: what the hooks answer under a policy.      *)
(***************************************************************************)
EXTENDS PolicyControl, KernelPolicy, FiniteSetTheorems, SequenceTheorems, WellFoundedInduction, TLAPS

\* The writes an actor has left, and what it found in the mirrors.
Left(a) == Range(job[a].todo)
Found(a) == Range(job[a].old)

Applying == {"snapshot", "writing", "restoring"}
Enrolling == {"tracking", "watching", "blocking"}
Leaving == {"removing", "untracking", "forgetting"}

\* Where an actor can be, and what it has in hand there.
PlacesOf(a) ==
  IF a = "sock" THEN {"idle"} \cup Applying \cup Enrolling \cup Leaving
  ELSE {"idle", "lookup"} \cup Applying
ShapeOf(a) ==
  /\ job[a].at \in PlacesOf(a)
  /\ job[a].at \notin {"writing", "restoring", "blocking", "removing"} => job[a].todo = <<>>
  /\ job[a].at \in {"idle", "lookup"} => job[a].old = <<>>
  /\ job[a].at = "snapshot" => Len(job[a].old) \in {0, 1, 2}
  /\ job[a].at \in {"writing", "restoring"} => Len(job[a].old) = 3
  /\ job[a].at \in {"lookup"} \cup Applying \cup Enrolling => job[a].entry \in Entry
  /\ job[a].at \in {"writing", "blocking"} => \A w \in Left(a) : w.entry = job[a].entry
  /\ job[a].at = "removing" => \A w \in Left(a) : w.entry = None
  /\ job[a].at = "restoring" =>
       \A w \in Left(a) : w.entry \in Found(a) /\ (w.map = "policy" => w.entry = job[a].old[1])
Shape ==
  /\ poll.at \in {"comparing", "recording"} => poll.path \in Paths
  /\ \A a \in Actors : ShapeOf(a)

\* The entry of a container in one copy of a map.
Copy(k, c, m) == IF k = "kernel" THEN kernel[c][m] ELSE mirror[c][m]

\* Nothing anyone holds for a container comes from a file it was not registered with.
Own(c, e) == e # None => <<c, e.path>> \in history.asked
OwnEntries ==
  \A c \in Containers :
    /\ \A k \in Copies, m \in Maps : Own(c, Copy(k, c, m))
    /\ Own(c, proxy[c])
    /\ configs[c] # None => <<c, configs[c]>> \in history.asked
OwnJobs ==
  \A a \in Actors :
    job[a].at \in Applying \cup Enrolling =>
      /\ Own(job[a].container, job[a].entry)
      /\ \A e \in Found(a) : Own(job[a].container, e)

\* The two tables differ only while "sock" moves a container from one to the other; the watcher
\* works for containers that are registered or have been.
Tables ==
  /\ \A c \in Containers :
       configs[c] # None <=> c \in registered /\ ~(job["sock"].at = "forgetting" /\ SockOn(c))
  /\ job["sock"].at = "watching" =>
       /\ job["sock"].container \in registered
       /\ configs[job["sock"].container] = job["sock"].entry.path
  /\ job["watcher"].at \in Applying => job["watcher"].container \in registered \cup history.gone
  /\ job["sock"].at \in Leaving => job["sock"].container \in history.gone
  /\ job["sock"].at \in Applying \cup Enrolling => job["sock"].container \notin history.gone

\* Both copies of the policy are there, or the container is excused. A snapshot without a policy
\* is one of a container that is excused or not registered yet.
Excused(c) == c \in history.bare \cup history.gone
Held(c) == Excused(c) \/ \A k \in Copies : Copy(k, c, "policy") # None
RegisteredHeld == \A c \in registered : Held(c)
BlankExcused(a) ==
  /\ job[a].at \in Applying /\ job[a].container \in registered
  /\ job[a].old # <<>> /\ job[a].old[1] = None
  => Excused(job[a].container)
Blanks == \A a \in Actors : BlankExcused(a)
PolicyComes ==
  job["sock"].at = "writing" /\ job["sock"].entry.config \in Secured \ Oversized =>
    \A k \in Copies :
      \/ Excused(job["sock"].container)
      \/ Copy(k, job["sock"].container, "policy") # None
      \/ \E w \in Left("sock") : w.copy = k /\ w.map = "policy"
PolicyCame ==
  job["sock"].at = "tracking" /\ job["sock"].entry.config \in Secured => Held(job["sock"].container)

\* Of a container that is gone nothing is left but what "sock" is about to remove.
Clean == history.gone \ history.overlapped
Removed ==
  /\ job["watcher"].at \in Applying => job["watcher"].container \notin Clean
  /\ \A c \in Clean :
       /\ \A k \in Copies, m \in Maps :
            \/ Copy(k, c, m) = None
            \/ job["sock"].at = "removing" /\ SockOn(c)
               /\ \E w \in Left("sock") : w.copy = k /\ w.map = m
       /\ c \in history.unheard \/ proxy[c] = None \/ (job["sock"].at = "removing" /\ SockOn(c))

\* The file of a container that shares it with none is watched, or will be by the next step.
Watching ==
  \A c \in Containers :
    /\ configs[c] # None
    /\ \A d \in Containers \ {c} : <<d, configs[c]>> \notin history.asked
    => watched[configs[c]] # Unwatched \/ (job["sock"].at = "watching" /\ SockOn(c))

Enforced ==
  /\ OwnEntries /\ OwnJobs /\ Tables
  /\ RegisteredHeld /\ Blanks /\ PolicyComes /\ PolicyCame
  /\ Removed /\ Watching

IInv == TypeOK /\ Shape /\ Enforced

----------------------------------------------------------------------------
(* Sequences of writes.                                                    *)

\* The empty sequence has no elements, and a sequence with none is empty.
LEMMA EmptyRange == Range(<<>>) = {}
BY DEF Range

\* The first element and the rest make up a sequence.
LEMMA HeadTailRange ==
  ASSUME NEW S, NEW s \in Seq(S), s # <<>>
  PROVE  /\ Head(s) \in S
         /\ Tail(s) \in Seq(S)
         /\ Range(s) = {Head(s)} \cup Range(Tail(s))
<1>1. /\ Head(s) \in S /\ Tail(s) \in Seq(S) /\ Len(Tail(s)) = Len(s) - 1
      /\ \A i \in 1 .. Len(Tail(s)) : Tail(s)[i] = s[i + 1]
  BY HeadTailProperties
<1>2. Len(s) \in Nat \ {0}
  BY EmptySeq
<1>3. Head(s) = s[1]
  BY SMT
<1>4. Range(s) = {s[i] : i \in 1 .. Len(s)}
  BY RangeEquality
<1>5. Range(Tail(s)) = {Tail(s)[i] : i \in 1 .. Len(Tail(s))}
  BY <1>1, RangeEquality
<1>6. ASSUME NEW x \in Range(s) PROVE x = s[1] \/ x \in Range(Tail(s))
  <2>1. PICK i \in 1 .. Len(s) : x = s[i]
    BY <1>4
  <2>2. CASE i = 1
    BY <2>1, <2>2
  <2>3. CASE i # 1
    <3>1. i - 1 \in 1 .. Len(Tail(s)) /\ Tail(s)[i - 1] = s[i]
      BY <1>1, <1>2, <2>3
    <3> QED
      BY <1>5, <2>1, <3>1
  <2> QED
    BY <2>2, <2>3
<1>7. ASSUME NEW x \in Range(Tail(s)) PROVE x \in Range(s)
  <2>1. PICK i \in 1 .. Len(Tail(s)) : x = Tail(s)[i]
    BY <1>5
  <2>2. i + 1 \in 1 .. Len(s) /\ x = s[i + 1]
    BY <1>1, <1>2, <2>1
  <2> QED
    BY <1>4, <2>2
<1>8. s[1] \in Range(s)
  BY <1>2, <1>4
<1> QED
  BY <1>1, <1>3, <1>6, <1>7, <1>8

\* Append adds one element.
LEMMA AppendRange ==
  ASSUME NEW S, NEW s \in Seq(S), NEW e \in S
  PROVE  /\ Append(s, e) \in Seq(S)
         /\ Len(Append(s, e)) = Len(s) + 1
         /\ Range(Append(s, e)) = Range(s) \cup {e}
         /\ s # <<>> => Append(s, e)[1] = s[1]
         /\ s = <<>> => Append(s, e)[1] = e
<1>1. /\ Append(s, e) \in Seq(S) /\ Len(Append(s, e)) = Len(s) + 1
      /\ \A i \in 1 .. Len(s) : Append(s, e)[i] = s[i]
      /\ Append(s, e)[Len(s) + 1] = e
  BY AppendProperties
<1>2. Len(s) \in Nat /\ (s # <<>> => Len(s) # 0) /\ (s = <<>> => Len(s) = 0)
  BY EmptySeq, LenProperties
<1>3. Range(s) = {s[i] : i \in 1 .. Len(s)}
  BY RangeEquality
<1>4. Range(Append(s, e)) = {Append(s, e)[i] : i \in 1 .. Len(s) + 1}
  BY <1>1, RangeEquality
<1>5. 1 .. Len(s) + 1 = (1 .. Len(s)) \cup {Len(s) + 1}
  BY <1>2
<1>6. Range(Append(s, e)) = Range(s) \cup {e}
  BY <1>1, <1>3, <1>4, <1>5
<1> QED
  BY <1>1, <1>2, <1>6

Both(m, e) ==
  {[copy |-> "kernel", map |-> m, entry |-> e], [copy |-> "mirror", map |-> m, entry |-> e]}

\* InBoth writes one entry into both copies of a map.
LEMMA InBothWrites ==
  ASSUME NEW m \in Maps, NEW e \in Slot
  PROVE  InBoth(m, e) \in Seq(Write) /\ Range(InBoth(m, e)) = Both(m, e)
<1> DEFINE w1 == [copy |-> "kernel", map |-> m, entry |-> e]
           w2 == [copy |-> "mirror", map |-> m, entry |-> e]
<1>1. w1 \in Write /\ w2 \in Write
  BY DEF Write, Copies
<1>2. InBoth(m, e) = <<w1, w2>>
  BY DEF InBoth
<1> HIDE DEF w1, w2
<1>3. <<w1, w2>> \in Seq(Write)
  BY <1>1
<1>4. Range(<<w1, w2>>) = {w1, w2}
  BY DEF Range
<1> QED
  BY <1>2, <1>3, <1>4 DEF w1, w2, Both

\* update_from_security_policy writes one entry, the policy among the rest when it is not refused.
LEMMA UpdateWrites ==
  ASSUME NEW e \in Entry
  PROVE  /\ Update(e) \in Seq(Write)
         /\ \A w \in Range(Update(e)) : w.entry = e
         /\ e.config \in Secured \ Oversized =>
              \A k \in Copies : \E w \in Range(Update(e)) : w.copy = k /\ w.map = "policy"
<1>1. CASE e.config \notin Secured \/ e.config \in Oversized
  BY <1>1, EmptyRange, EmptySeq DEF Update
<1>2. CASE ~(e.config \notin Secured \/ e.config \in Oversized)
  <2> DEFINE last == IF e.config \in BadNetwork THEN <<>> ELSE InBoth("network", e)
             two == InBoth("policy", e) \o InBoth("rules", e)
  <2>1. e \in Slot /\ {"policy", "rules", "network"} \subseteq Maps
    BY DEF Slot, Maps
  <2>2. InBoth("policy", e) \in Seq(Write) /\ Range(InBoth("policy", e)) = Both("policy", e)
    BY <2>1, InBothWrites
  <2>3. InBoth("rules", e) \in Seq(Write) /\ Range(InBoth("rules", e)) = Both("rules", e)
    BY <2>1, InBothWrites
  <2>4. last \in Seq(Write) /\ \A w \in Range(last) : w.entry = e
    <3>1. InBoth("network", e) \in Seq(Write) /\ Range(InBoth("network", e)) = Both("network", e)
      BY <2>1, InBothWrites
    <3> QED
      BY <3>1, EmptyRange, EmptySeq DEF Both
  <2>5. two \in Seq(Write) /\ Range(two) = Both("policy", e) \cup Both("rules", e)
    BY <2>2, <2>3, ConcatProperties, RangeConcatenation
  <2>6. Update(e) = two \o last
    BY <1>2 DEF Update
  <2> HIDE DEF two, last
  <2>7. Update(e) \in Seq(Write) /\ Range(Update(e)) = Range(two) \cup Range(last)
    BY <2>4, <2>5, <2>6, ConcatProperties, RangeConcatenation
  <2>8. \A k \in Copies : [copy |-> k, map |-> "policy", entry |-> e] \in Range(Update(e))
    BY <2>5, <2>7 DEF Both, Copies
  <2>9. \A w \in Range(Update(e)) : w.entry = e
    BY <2>4, <2>5, <2>7 DEF Both
  <2>10. \A k \in Copies : \E w \in Range(Update(e)) : w.copy = k /\ w.map = "policy"
    <3> TAKE k \in Copies
    <3> DEFINE w == [copy |-> k, map |-> "policy", entry |-> e]
    <3>1. w \in Range(Update(e)) /\ w.copy = k /\ w.map = "policy"
      BY <2>8
    <3> QED
      BY <3>1
  <2> QED
    BY <2>7, <2>9, <2>10
<1> QED
  BY <1>1, <1>2

\* restore_snapshot writes what was found, and for the policy what was found first.
LEMMA RestoreWrites ==
  ASSUME NEW old \in Seq(Slot), Len(old) = 3
  PROVE  /\ Restore(old) \in Seq(Write)
         /\ \A w \in Range(Restore(old)) :
              w.entry \in Range(old) /\ (w.map = "policy" => w.entry = old[1])
<1> DEFINE w1 == [copy |-> "kernel", map |-> "rules", entry |-> old[2]]
           w2 == [copy |-> "kernel", map |-> "network", entry |-> old[3]]
<1>1. \A i \in 1 .. 3 : old[i] \in Slot /\ old[i] \in Range(old)
  BY ElementOfSeq, RangeEquality
<1>2. InBoth("policy", old[1]) \in Seq(Write)
      /\ Range(InBoth("policy", old[1])) = Both("policy", old[1])
  BY <1>1, InBothWrites DEF Maps
<1>3. w1 \in Write /\ w2 \in Write
  BY <1>1 DEF Write, Copies, Maps
<1>4. Restore(old) = InBoth("policy", old[1]) \o <<w1, w2>>
  BY DEF Restore
<1>5. \A w \in {w1, w2} : w.entry \in Range(old) /\ w.map # "policy"
  BY <1>1
<1> HIDE DEF w1, w2
<1>6. <<w1, w2>> \in Seq(Write) /\ Range(<<w1, w2>>) = {w1, w2}
  BY <1>3 DEF Range
<1>7. Restore(old) \in Seq(Write) /\ Range(Restore(old)) = Both("policy", old[1]) \cup {w1, w2}
  <2> DEFINE tail == <<w1, w2>>
  <2>1. tail \in Seq(Write) /\ Range(tail) = {w1, w2}
    BY <1>6
  <2>2. Restore(old) = InBoth("policy", old[1]) \o tail
    BY <1>4
  <2> HIDE DEF tail
  <2> QED
    BY <1>2, <2>1, <2>2, ConcatProperties, RangeConcatenation
<1>8. \A w \in Both("policy", old[1]) : w.entry = old[1] /\ w.entry \in Range(old)
  BY <1>1 DEF Both
<1> QED
  BY <1>5, <1>7, <1>8

\* remove_policy clears both copies of every map.
LEMMA RemovalWrites ==
  /\ Removal \in Seq(Write)
  /\ \A w \in Range(Removal) : w.entry = None
  /\ \A k \in Copies, m \in Maps : \E w \in Range(Removal) : w.copy = k /\ w.map = m
<1>1. \A m \in Maps : InBoth(m, None) \in Seq(Write) /\ Range(InBoth(m, None)) = Both(m, None)
  BY InBothWrites DEF Slot
<1> DEFINE two == InBoth("policy", None) \o InBoth("rules", None)
           three == two \o InBoth("network", None)
<1>2. two \in Seq(Write) /\ Range(two) = Both("policy", None) \cup Both("rules", None)
  BY <1>1, ConcatProperties, RangeConcatenation DEF Maps
<1>3. three \in Seq(Write) /\ Range(three) = Range(two) \cup Both("network", None)
  <2> HIDE DEF two
  <2> QED
    BY <1>1, <1>2, ConcatProperties, RangeConcatenation DEF Maps
<1>4. Removal = three \o InBoth("sock", None)
  BY DEF Removal
<1>5. Removal \in Seq(Write) /\ Range(Removal) = Range(three) \cup Both("sock", None)
  <2> HIDE DEF three
  <2> QED
    BY <1>1, <1>3, <1>4, ConcatProperties, RangeConcatenation DEF Maps
<1> HIDE DEF two, three
<1>6. \A k \in Copies, m \in Maps : [copy |-> k, map |-> m, entry |-> None] \in Range(Removal)
  BY <1>2, <1>3, <1>5 DEF Both, Copies, Maps
<1>7. \A k \in Copies, m \in Maps : \E w \in Range(Removal) : w.copy = k /\ w.map = m
  <2> TAKE k \in Copies, m \in Maps
  <2> DEFINE w == [copy |-> k, map |-> m, entry |-> None]
  <2>1. w \in Range(Removal) /\ w.copy = k /\ w.map = m
    BY <1>6
  <2> QED
    BY <2>1
<1> QED
  BY <1>2, <1>3, <1>5, <1>7 DEF Both

----------------------------------------------------------------------------
(* Types, and what is in hand at each place.                               *)

\* The invariant begins true.
LEMMA InitInv == Init => IInv
<1> SUFFICES ASSUME Init PROVE IInv
  OBVIOUS
<1> USE EmptyRange
<1>1. \A a \in Actors : job[a] = Idle
  BY DEF Init
<1>2. Idle \in Job
  BY EmptySeq DEF Idle, Job, Phases, Slot, NoEntries
<1>3. TypeOK
  <2>1. poll \in [at : {"asleep", "checking", "comparing", "recording", "sending"},
                  left : SUBSET Paths, path : Paths \cup {None}, time : Nat, changed : SUBSET Paths]
    BY DEF Init, Asleep
  <2>2. 0 \in 0 .. MaxMessages /\ 0 \in 0 .. MaxFaults
    BY BoundsAssumption
  <2>3. /\ kernel \in [Containers -> [Maps -> Slot]] /\ mirror \in [Containers -> [Maps -> Slot]]
        /\ proxy \in [Containers -> Slot]
    BY DEF Init, NoEntries, Slot
  <2>4. job \in [Actors -> Job] /\ \A a \in Actors : job[a].at = "idle"
    BY <1>1, <1>2 DEF Init, Idle
  <2>5. queue \in Seq(Paths)
    BY EmptySeq DEF Init
  <2>6. watched \in [Paths -> Int] /\ mtime \in [Paths -> Nat]
    BY DEF Init, Unwatched
  <2> QED
    BY <2>1, <2>2, <2>3, <2>4, <2>5, <2>6 DEF TypeOK, Init
<1>4. Shape
  BY <1>1 DEF Init, Shape, ShapeOf, PlacesOf, Idle, Asleep, Applying, Enrolling
<1>5. OwnEntries /\ OwnJobs
  BY <1>1 DEF Init, OwnEntries, OwnJobs, Own, Copy, NoEntries, Applying, Enrolling, Idle
<1>6. Tables /\ RegisteredHeld /\ Blanks /\ PolicyComes /\ PolicyCame
  BY <1>1 DEF Init, Tables, RegisteredHeld, Blanks, BlankExcused, PolicyComes, PolicyCame,
              Applying, Enrolling, Leaving, Idle, Actors
<1>7. Removed /\ Watching
  BY <1>1 DEF Init, Removed, Clean, Watching, Applying, Idle, Actors
<1> QED
  BY <1>3, <1>4, <1>5, <1>6, <1>7 DEF IInv, Enforced

\* One actor's job changes; the other's is left alone.
LEMMA Becomes ==
  ASSUME TypeOK, NEW a \in Actors, NEW j, Become(a, j)
  PROVE  /\ job'[a] = j
         /\ \A b \in Actors \ {a} : job'[b] = job[b]
         /\ job' = [job EXCEPT ![a] = j]
BY DEF TypeOK, Become

\* A well-formed job keeps the types of all jobs.
JobType == /\ job \in [Actors -> Job]
           /\ \A a \in Actors : job[a].at \notin {"idle", "lookup"} => job[a].container \in Containers

LEMMA JobKept ==
  ASSUME TypeOK, Shape, NEW a \in Actors, NEW j \in Job, Become(a, j),
         j.at \notin {"idle", "lookup"} => j.container \in Containers,
         j.at \in PlacesOf(a),
         j.at \notin {"writing", "restoring", "blocking", "removing"} => j.todo = <<>>,
         j.at \in {"idle", "lookup"} => j.old = <<>>,
         j.at = "snapshot" => Len(j.old) \in {0, 1, 2},
         j.at \in {"writing", "restoring"} => Len(j.old) = 3,
         j.at \in {"lookup"} \cup Applying \cup Enrolling => j.entry \in Entry,
         j.at \in {"writing", "blocking"} => \A w \in Range(j.todo) : w.entry = j.entry,
         j.at = "removing" => \A w \in Range(j.todo) : w.entry = None,
         j.at = "restoring" =>
           \A w \in Range(j.todo) :
             w.entry \in Range(j.old) /\ (w.map = "policy" => w.entry = j.old[1])
  PROVE  JobType' /\ \A b \in Actors : ShapeOf(b)'
<1>1. job'[a] = j /\ (\A b \in Actors \ {a} : job'[b] = job[b]) /\ job' = [job EXCEPT ![a] = j]
  BY Becomes
<1>2. JobType'
  BY <1>1 DEF TypeOK, JobType
<1>3. ShapeOf(a)'
  BY <1>1 DEF ShapeOf, Left, Found
<1>4. \A b \in Actors \ {a} : ShapeOf(b)'
  BY <1>1 DEF Shape, ShapeOf, Left, Found
<1> QED
  BY <1>2, <1>3, <1>4

\* An idle job is well-formed, whoever's it is.
LEMMA IdleKept ==
  ASSUME TypeOK, Shape, NEW a \in Actors, Become(a, Idle)
  PROVE  JobType' /\ \A b \in Actors : ShapeOf(b)'
<1>1. /\ Idle \in Job /\ Idle.at = "idle" /\ Idle.todo = <<>> /\ Idle.old = <<>>
      /\ "idle" \in PlacesOf(a)
  BY EmptySeq DEF Idle, Job, Phases, Slot, NoEntries, PlacesOf
<1> QED
  BY <1>1, JobKept DEF Applying, Enrolling

\* The three maps a snapshot reads, the policy first.
LEMMA SnapshotOrder ==
  Len(Snapshotted) = 3 /\ (\A i \in {1, 2, 3} : Snapshotted[i] \in Maps) /\ Snapshotted[1] = "policy"
BY DEF Snapshotted, Maps

\* The steps of applying a policy keep jobs well-formed.
LEMMA ApplyShape ==
  ASSUME TypeOK, Shape, NEW a \in Actors, ApplyNext(a)
  PROVE  JobType' /\ \A b \in Actors : ShapeOf(b)'
<1> DEFINE j == job[a]
<1>1. /\ j \in Job
      /\ j.at \notin {"idle", "lookup"} => j.container \in Containers
      /\ ShapeOf(a)
  BY DEF TypeOK, Shape
<1>2. /\ j.old \in Seq(Slot) /\ j.todo \in Seq(Write) /\ j.entry \in Slot
      /\ j.before \in [Maps -> Slot]
  BY <1>1 DEF Job
<1>3. CASE Snapshot(a)
  <2> DEFINE found == mirror[j.container][Snapshotted[Len(j.old) + 1]]
             old == Append(j.old, found)
             next == IF Len(old) < Len(Snapshotted)
                       THEN [j EXCEPT !.old = old]
                       ELSE [j EXCEPT !.at = "writing", !.old = old, !.todo = Update(j.entry)]
  <2>1. j.at = "snapshot" /\ j.container \in Containers /\ Len(j.old) \in {0, 1, 2} /\ j.entry \in Entry
    BY <1>1, <1>3 DEF Snapshot, ShapeOf, Applying
  <2>0. /\ Len(j.old) + 1 \in {1, 2, 3}
        /\ Len(j.old) + 1 < 3 => Len(j.old) + 1 \in {0, 1, 2}
        /\ ~(Len(j.old) + 1 < 3) => Len(j.old) + 1 = 3
    <3> DEFINE n == Len(j.old)
    <3>1. n \in {0, 1, 2}
      BY <2>1
    <3> HIDE DEF n
    <3>2. n = 0 \/ n = 1 \/ n = 2
      BY <3>1
    <3>3. n + 1 \in {1, 2, 3} /\ (n + 1 < 3 => n + 1 \in {0, 1, 2}) /\ (~(n + 1 < 3) => n + 1 = 3)
      BY <3>2
    <3> QED
      BY <3>3 DEF n
  <2>2. Snapshotted[Len(j.old) + 1] \in Maps
    BY <2>0, SnapshotOrder
  <2>3. found \in Slot
    BY <2>1, <2>2 DEF TypeOK
  <2>4. old \in Seq(Slot) /\ Len(old) = Len(j.old) + 1
    BY <1>2, <2>3, AppendRange
  <2>5. Become(a, next)
    BY <1>3 DEF Snapshot
  <2>6. CASE Len(old) < Len(Snapshotted)
    <3>1. next = [j EXCEPT !.old = old] /\ Len(old) \in {0, 1, 2}
      <4>1. Len(old) \in {0, 1, 2}
        <5> HIDE DEF j, old
        <5> QED
          BY <2>0, <2>4, <2>6, SnapshotOrder
      <4> QED
        BY <2>6, <4>1
    <3> HIDE DEF old, found
    <3>2. next \in Job /\ next.at = "snapshot" /\ next.todo = <<>> /\ next.old = old
          /\ next.entry = j.entry /\ next.container = j.container
      BY <1>1, <1>2, <2>1, <2>4, <3>1 DEF Job, ShapeOf
    <3>3. next.at \in PlacesOf(a)
      BY <1>1, <2>1, <3>2 DEF ShapeOf
    <3> HIDE DEF next
    <3> QED
      BY <2>1, <2>5, <3>1, <3>2, <3>3, JobKept
  <2>7. CASE ~(Len(old) < Len(Snapshotted))
    <3>1. next = [j EXCEPT !.at = "writing", !.old = old, !.todo = Update(j.entry)] /\ Len(old) = 3
      <4>1. Len(old) = 3
        <5> HIDE DEF j, old
        <5> QED
          BY <2>0, <2>4, <2>7, SnapshotOrder
      <4> QED
        BY <2>7, <4>1
    <3>2. Update(j.entry) \in Seq(Write) /\ \A w \in Range(Update(j.entry)) : w.entry = j.entry
      BY <2>1, UpdateWrites
    <3> HIDE DEF old, found
    <3>3. next \in Job /\ next.at = "writing" /\ next.todo = Update(j.entry) /\ next.old = old
          /\ next.entry = j.entry /\ next.container = j.container
      BY <1>1, <1>2, <2>1, <2>4, <3>1, <3>2 DEF Job, Phases
    <3>4. next.at \in PlacesOf(a)
      BY <3>3 DEF PlacesOf, Applying
    <3> HIDE DEF next
    <3> QED
      BY <2>1, <2>5, <3>1, <3>2, <3>3, <3>4, JobKept
  <2> QED
    BY <2>6, <2>7
<1>4. CASE WriteMap(a)
  <2> DEFINE next == [j EXCEPT !.todo = Tail(@)]
  <2>1. j.todo # <<>> /\ Become(a, next)
    BY <1>4 DEF WriteMap
  <2>2. Tail(j.todo) \in Seq(Write) /\ Range(j.todo) = {Head(j.todo)} \cup Range(Tail(j.todo))
    BY <1>2, <2>1, HeadTailRange
  <2>3. /\ next \in Job /\ next.at = j.at /\ next.todo = Tail(j.todo) /\ next.old = j.old
        /\ next.entry = j.entry /\ next.container = j.container
    BY <1>1, <1>2, <2>2 DEF Job
  <2>4. j.at \in {"writing", "restoring", "blocking", "removing"}
    BY <1>1, <2>1 DEF ShapeOf
  <2> HIDE DEF next
  <2> QED
    BY <1>1, <2>1, <2>2, <2>3, <2>4, JobKept DEF ShapeOf, Left, Found, Applying, Enrolling
<1>5. ASSUME Written(a), Accepted(a)
      PROVE  JobType' /\ \A b \in Actors : ShapeOf(b)'
  <2>1. j.at = "writing" /\ j.todo = <<>>
    BY <1>5 DEF Written
  <2>2. CASE a = "sock"
    <3> DEFINE next == [j EXCEPT !.at = "tracking", !.old = <<>>, !.before = NoEntries]
    <3>1. Become(a, next)
      BY <1>5, <2>2 DEF Accepted
    <3>2. j.entry \in Entry /\ j.container \in Containers
      BY <1>1, <2>1 DEF ShapeOf, Applying
    <3>3. <<>> \in Seq(Slot) /\ NoEntries \in [Maps -> Slot]
      BY EmptySeq DEF NoEntries, Slot
    <3>4. next \in Job /\ next.at = "tracking" /\ next.todo = <<>> /\ next.entry = j.entry
          /\ next.container = j.container
      BY <1>1, <1>2, <2>1, <3>3 DEF Job, Phases
    <3>5. next.at \in PlacesOf(a)
      BY <2>2, <3>4 DEF PlacesOf, Enrolling
    <3> HIDE DEF next
    <3> QED
      BY <3>1, <3>2, <3>4, <3>5, JobKept
  <2>3. CASE a # "sock"
    BY <1>5, <2>3, IdleKept DEF Accepted
  <2> QED
    BY <2>2, <2>3
<1>6. ASSUME Written(a), RollBack(a)
      PROVE  JobType' /\ \A b \in Actors : ShapeOf(b)'
  <2> DEFINE next == [j EXCEPT !.at = "restoring", !.todo = Restore(j.old)]
  <2>1. /\ j.at = "writing" /\ Len(j.old) = 3 /\ j.entry \in Entry /\ j.container \in Containers
        /\ Become(a, next)
    BY <1>1, <1>6 DEF Written, ShapeOf, Applying, RollBack
  <2>2. /\ Restore(j.old) \in Seq(Write)
        /\ \A w \in Range(Restore(j.old)) :
             w.entry \in Range(j.old) /\ (w.map = "policy" => w.entry = j.old[1])
    BY <1>2, <2>1, RestoreWrites
  <2>3. next \in Job /\ next.at = "restoring" /\ next.todo = Restore(j.old) /\ next.old = j.old
        /\ next.entry = j.entry /\ next.container = j.container
    BY <1>1, <1>2, <2>2 DEF Job, Phases
  <2>4. next.at \in PlacesOf(a)
    BY <2>3 DEF PlacesOf, Applying
  <2> HIDE DEF next
  <2> QED
    BY <2>1, <2>2, <2>3, <2>4, JobKept
<1>7. CASE UpdateFailed(a)
  BY <1>7, IdleKept DEF UpdateFailed
<1>8. CASE NothingToPush(a)
  BY <1>5, <1>8 DEF NothingToPush
<1>9. CASE PushAccepted(a)
  BY <1>5, <1>9 DEF PushAccepted, Pushing
<1>10. CASE PushRejected(a)
  BY <1>6, <1>10 DEF PushRejected, Pushing
<1>11. CASE PushFailed(a)
  BY <1>6, <1>11 DEF PushFailed, Pushing
<1>12. CASE RolledBack(a)
  BY <1>12, IdleKept DEF RolledBack
<1> QED
  BY <1>3, <1>4, <1>7, <1>8, <1>9, <1>10, <1>11, <1>12 DEF ApplyNext

\* The steps of "sock" keep jobs well-formed.
LEMMA SockShape ==
  ASSUME TypeOK, Shape,
         \/ \E c \in Containers : Unregister(c) \/ \E p \in Paths : Register(c, p)
         \/ Track \/ AddWatch \/ SockBlocked \/ TellProxy \/ Untrack \/ Forget
  PROVE  JobType' /\ \A b \in Actors : ShapeOf(b)'
<1> DEFINE j == job["sock"]
<1>1. /\ j \in Job /\ "sock" \in Actors
      /\ j.at \notin {"idle", "lookup"} => j.container \in Containers
      /\ ShapeOf("sock")
  BY DEF TypeOK, Shape, Actors
<1>2. j.old \in Seq(Slot) /\ j.todo \in Seq(Write) /\ j.entry \in Slot
      /\ j.before \in [Maps -> Slot]
  BY <1>1 DEF Job
<1>3. ASSUME NEW c \in Containers, Unregister(c)
      PROVE  JobType' /\ \A b \in Actors : ShapeOf(b)'
  <2> DEFINE next == [Idle EXCEPT !.at = "removing", !.container = c, !.todo = Removal]
  <2>1. Become("sock", next)
    BY <1>3 DEF Unregister
  <2>2. /\ next \in Job /\ next.at = "removing" /\ next.container = c /\ next.todo = Removal
        /\ next.at \in PlacesOf("sock")
    BY RemovalWrites, EmptySeq DEF Idle, Job, Phases, Slot, NoEntries, PlacesOf, Leaving
  <2> HIDE DEF next
  <2> QED
    BY <1>1, <2>1, <2>2, RemovalWrites, JobKept DEF Applying, Enrolling
<1>4. ASSUME NEW c \in Containers, NEW p \in Paths, Register(c, p)
      PROVE  JobType' /\ \A b \in Actors : ShapeOf(b)'
  <2> DEFINE e == [path |-> p, config |-> file[p]]
             next == [Idle EXCEPT !.at = "snapshot", !.container = c, !.before = kernel[c],
                                  !.entry = e]
  <2>1. CASE file[p] \in Secured \cup Filtered
    <3>1. Become("sock", next)
      BY <1>4, <2>1 DEF Register
    <3>2. e \in Entry
      BY <2>1, SectionsAssumption DEF Entry
    <3>3. kernel[c] \in [Maps -> Slot] /\ e \in Slot
      BY <3>2 DEF TypeOK, Slot
    <3> HIDE DEF e
    <3>4. /\ next \in Job /\ next.at = "snapshot" /\ next.container = c /\ next.todo = <<>>
          /\ next.old = <<>> /\ next.entry = e /\ next.at \in PlacesOf("sock")
      BY <3>3, EmptySeq DEF Idle, Job, Phases, PlacesOf, Applying
    <3>5. Len(next.old) \in {0, 1, 2}
      BY <3>4
    <3> HIDE DEF next
    <3> QED
      BY <1>1, <3>1, <3>2, <3>4, <3>5, JobKept
  <2>2. CASE file[p] \notin Secured \cup Filtered
    <3>1. UNCHANGED job
      BY <1>4, <2>2 DEF Register
    <3> QED
      BY <3>1 DEF TypeOK, Shape, JobType, ShapeOf, Left, Found
  <2> QED
    BY <2>1, <2>2
<1>5. ASSUME NEW to \in Phases \cap PlacesOf("sock"), Become("sock", [j EXCEPT !.at = to]),
             to \in {"watching", "untracking", "forgetting"},
             j.at \in IF to = "watching" THEN Enrolling ELSE Leaving, j.todo = <<>>
      PROVE  JobType' /\ \A b \in Actors : ShapeOf(b)'
  <2> DEFINE next == [j EXCEPT !.at = to]
  <2>1. /\ next \in Job /\ next.at = to /\ next.container = j.container /\ next.todo = <<>>
        /\ next.entry = j.entry
    BY <1>1, <1>2, <1>5 DEF Job
  <2>2. /\ j.container \in Containers /\ (to = "watching" => j.entry \in Entry)
        /\ Become("sock", next)
    BY <1>1, <1>5 DEF ShapeOf, Enrolling, Leaving
  <2> HIDE DEF next
  <2> QED
    BY <1>1, <1>5, <2>1, <2>2, JobKept DEF Applying, Enrolling
<1>6. CASE Track
  <2>1. j.at = "tracking" /\ j.todo = <<>> /\ Become("sock", [j EXCEPT !.at = "watching"])
    BY <1>6 DEF Track, Go
  <2> QED
    BY <1>5, <2>1 DEF Phases, PlacesOf, Enrolling
<1>7. CASE AddWatch
  <2> DEFINE next == [j EXCEPT !.at = "blocking", !.todo = InBoth("sock", j.entry)]
  <2>1. j.at = "watching" /\ Become("sock", next)
    BY <1>7 DEF AddWatch
  <2>2. j.container \in Containers /\ j.entry \in Entry
    BY <1>1, <2>1 DEF ShapeOf, Enrolling
  <2>3. /\ InBoth("sock", j.entry) \in Seq(Write)
        /\ \A w \in Range(InBoth("sock", j.entry)) : w.entry = j.entry
    <3>1. "sock" \in Maps
      BY DEF Maps
    <3>2. InBoth("sock", j.entry) \in Seq(Write)
          /\ Range(InBoth("sock", j.entry)) = Both("sock", j.entry)
      BY <1>2, <3>1, InBothWrites
    <3> QED
      BY <3>2 DEF Both
  <2>4. /\ next \in Job /\ next.at = "blocking" /\ next.container = j.container
        /\ next.todo = InBoth("sock", j.entry) /\ next.entry = j.entry
        /\ next.at \in PlacesOf("sock")
    BY <1>1, <1>2, <2>3 DEF Job, Phases, PlacesOf, Enrolling
  <2> HIDE DEF next
  <2> QED
    BY <1>1, <2>1, <2>2, <2>3, <2>4, JobKept
<1>8. CASE SockBlocked
  BY <1>1, <1>8, IdleKept DEF SockBlocked
<1>9. CASE TellProxy
  <2>1. j.at = "removing" /\ j.todo = <<>> /\ Become("sock", [j EXCEPT !.at = "untracking"])
    BY <1>9 DEF TellProxy, Go
  <2> QED
    BY <1>5, <2>1 DEF Phases, PlacesOf, Leaving
<1>10. CASE Untrack
  <2>1. j.at = "untracking" /\ Become("sock", [j EXCEPT !.at = "forgetting"])
    BY <1>10 DEF Untrack
  <2>2. j.todo = <<>>
    BY <1>1, <2>1 DEF ShapeOf
  <2> QED
    BY <1>5, <2>1, <2>2 DEF Phases, PlacesOf, Leaving
<1>11. CASE Forget
  BY <1>1, <1>11, IdleKept DEF Forget
<1> QED
  BY <1>3, <1>4, <1>6, <1>7, <1>8, <1>9, <1>10, <1>11

\* The steps of the watcher keep jobs well-formed.
LEMMA WatcherShape ==
  ASSUME TypeOK, Shape, TakeChange \/ FindOwner
  PROVE  JobType' /\ \A b \in Actors : ShapeOf(b)'
<1> DEFINE j == job["watcher"]
<1>1. j \in Job /\ "watcher" \in Actors /\ ShapeOf("watcher")
  BY DEF TypeOK, Shape, Actors
<1>2. ASSUME UNCHANGED job
      PROVE  JobType' /\ \A b \in Actors : ShapeOf(b)'
  BY <1>2 DEF TypeOK, Shape, JobType, ShapeOf, Left, Found
<1>3. CASE TakeChange
  <2> DEFINE p == Head(queue)
             e == [path |-> p, config |-> file[p]]
             next == [Idle EXCEPT !.at = "lookup", !.entry = e]
  <2>1. CASE file[p] = Absent
    BY <1>2, <1>3, <2>1 DEF TakeChange
  <2>2. CASE file[p] # Absent
    <3>1. Become("watcher", next) /\ queue # <<>>
      BY <1>3, <2>2 DEF TakeChange
    <3>2. p \in Paths
      BY <3>1, HeadTailProperties DEF TypeOK
    <3>3. e \in Entry
      BY <2>2, <3>2 DEF TypeOK, Entry
    <3> HIDE DEF e
    <3>4. /\ next \in Job /\ next.at = "lookup" /\ next.todo = <<>> /\ next.entry = e
          /\ next.old = <<>> /\ next.at \in PlacesOf("watcher")
      BY <3>3, EmptySeq DEF Idle, Job, Phases, Slot, NoEntries, PlacesOf
    <3> HIDE DEF next
    <3> QED
      BY <1>1, <3>1, <3>3, <3>4, JobKept
  <2> QED
    BY <2>1, <2>2
<1>4. CASE FindOwner
  <2>1. ASSUME NEW c \in Containers,
               Become("watcher", [j EXCEPT !.at = "snapshot", !.container = c])
        PROVE  JobType' /\ \A b \in Actors : ShapeOf(b)'
    <3> DEFINE next == [j EXCEPT !.at = "snapshot", !.container = c]
    <3>1. j.at = "lookup" /\ j.todo = <<>> /\ j.old = <<>> /\ j.entry \in Entry
      BY <1>1, <1>4 DEF FindOwner, ShapeOf
    <3>2. /\ next \in Job /\ next.at = "snapshot" /\ next.container = c /\ next.todo = <<>>
          /\ next.old = <<>> /\ next.entry = j.entry /\ next.at \in PlacesOf("watcher")
      BY <1>1, <3>1 DEF Job, Phases, PlacesOf, Applying
    <3>3. Len(next.old) \in {0, 1, 2} /\ Become("watcher", next)
      BY <2>1, <3>2
    <3> HIDE DEF next
    <3> QED
      BY <1>1, <2>1, <3>1, <3>2, <3>3, JobKept
  <2>2. CASE Become("watcher", Idle)
    BY <1>1, <2>2, IdleKept
  <2> QED
    BY <1>4, <2>1, <2>2 DEF FindOwner
<1> QED
  BY <1>3, <1>4

History == [asked : SUBSET (Containers \X Paths), bare : SUBSET Containers,
            gone : SUBSET Containers, overlapped : SUBSET Containers, unheard : SUBSET Containers]

\* Any of its sets may change.
LEMMA HistoryChanges ==
  ASSUME NEW h \in History, NEW S \in SUBSET Containers, NEW o \in SUBSET Containers,
         NEW asked \in SUBSET (Containers \X Paths)
  PROVE  /\ [h EXCEPT !.asked = asked] \in History
         /\ [h EXCEPT !.bare = S] \in History
         /\ [h EXCEPT !.unheard = S] \in History
         /\ [h EXCEPT !.overlapped = S] \in History
         /\ [h EXCEPT !.gone = S, !.overlapped = o] \in History
BY DEF History

\* The other variables, and where the poll thread is.
OtherTypes ==
  /\ file \in [Paths -> Configs \cup {Absent}] /\ mtime \in [Paths -> Nat]
  /\ kernel \in [Containers -> [Maps -> Slot]] /\ mirror \in [Containers -> [Maps -> Slot]]
  /\ proxy \in [Containers -> Slot]
  /\ registered \subseteq Containers /\ configs \in [Containers -> Paths \cup {None}]
  /\ watched \in [Paths -> Int]
  /\ poll \in [at : {"asleep", "checking", "comparing", "recording", "sending"},
               left : SUBSET Paths, path : Paths \cup {None}, time : Nat,
               changed : SUBSET Paths]
  /\ queue \in Seq(Paths)
  /\ messages \in 0 .. MaxMessages /\ faults \in 0 .. MaxFaults
  /\ history \in History
  /\ poll.at \in {"comparing", "recording"} => poll.path \in Paths

LEMMA OtherTypesHold == TypeOK /\ Shape => OtherTypes
BY DEF TypeOK, Shape, OtherTypes, History

\* Edits and the poll thread.
LEMMA MonitorTypes ==
  ASSUME OtherTypes, Editing \/ PollNext
  PROVE  OtherTypes'
<1>1. ASSUME NEW p \in Paths, NEW g \in Configs \cup {Absent}, Edit(p, g)
      PROVE  OtherTypes'
  <2>1. file' \in [Paths -> Configs \cup {Absent}] /\ mtime' \in [Paths -> Nat]
    BY <1>1 DEF Edit, OtherTypes
  <2> QED
    BY <1>1, <2>1 DEF Edit, OtherTypes, ebpf, tracking, monitor, bounds
<1>2. CASE PollKeys
  <2>1. poll' = [at |-> "checking", left |-> {p \in Paths : watched[p] # Unwatched}, path |-> None,
                 time |-> 0, changed |-> {}]
    BY <1>2 DEF PollKeys, Asleep
  <2>2. /\ poll' \in [at : {"asleep", "checking", "comparing", "recording", "sending"},
                      left : SUBSET Paths, path : Paths \cup {None}, time : Nat,
                      changed : SUBSET Paths]
        /\ poll'.at = "checking"
    BY <2>1
  <2> QED
    BY <1>2, <2>2 DEF PollKeys, OtherTypes, files, ebpf, tracking, bounds
<1>3. ASSUME NEW p \in Paths, PollStat(p)
      PROVE  OtherTypes'
  <2>1. mtime[p] \in Nat
    BY DEF OtherTypes
  <2>2. /\ poll' \in [at : {"asleep", "checking", "comparing", "recording", "sending"},
                      left : SUBSET Paths, path : Paths \cup {None}, time : Nat,
                      changed : SUBSET Paths]
        /\ poll'.at \in {"comparing", "recording"} => poll'.path \in Paths
    <3>1. CASE file[p] = Absent
      <4>1. poll' = [poll EXCEPT !.left = @ \ {p}] /\ poll.at = "checking"
        BY <1>3, <3>1 DEF PollStat
      <4> QED
        BY <4>1 DEF OtherTypes
    <3>2. CASE file[p] # Absent
      <4>1. poll' = [poll EXCEPT !.at = "comparing", !.path = p, !.time = mtime[p]]
        BY <1>3, <3>2 DEF PollStat
      <4> QED
        BY <2>1, <4>1 DEF OtherTypes
    <3> QED
      BY <3>1, <3>2
  <2> QED
    BY <1>3, <2>2 DEF PollStat, OtherTypes, files, ebpf, tracking, bounds
<1>4. CASE PollCompare
  <2>1. poll.at = "comparing" /\ poll.path \in Paths
    BY <1>4 DEF PollCompare, OtherTypes
  <2>2. PICK changed \in SUBSET Paths : poll' = [poll EXCEPT !.at = "recording", !.changed = changed]
    <3>1. CASE watched[poll.path] = poll.time
      BY <1>4, <3>1 DEF PollCompare, OtherTypes
    <3>2. CASE watched[poll.path] # poll.time
      BY <1>4, <2>1, <3>2 DEF PollCompare, OtherTypes
    <3> QED
      BY <3>1, <3>2
  <2>3. /\ poll' \in [at : {"asleep", "checking", "comparing", "recording", "sending"},
                      left : SUBSET Paths, path : Paths \cup {None}, time : Nat,
                      changed : SUBSET Paths]
        /\ poll'.path \in Paths
    BY <2>1, <2>2 DEF OtherTypes
  <2> QED
    BY <1>4, <2>3 DEF PollCompare, OtherTypes, files, ebpf, tracking, bounds
<1>5. CASE PollRecord
  <2>1. poll.path \in Paths /\ poll.time \in Nat
    BY <1>5 DEF PollRecord, OtherTypes
  <2>2. watched' \in [Paths -> Int]
    BY <1>5, <2>1 DEF PollRecord, OtherTypes
  <2>3. /\ poll' \in [at : {"asleep", "checking", "comparing", "recording", "sending"},
                      left : SUBSET Paths, path : Paths \cup {None}, time : Nat,
                      changed : SUBSET Paths]
        /\ poll'.at = "checking"
    BY <1>5 DEF PollRecord, OtherTypes
  <2> QED
    BY <1>5, <2>2, <2>3 DEF PollRecord, OtherTypes, files, ebpf, tracking, bounds
<1>6. CASE PollSend
  <2>1. /\ queue' \in Seq(Paths)
        /\ poll' \in [at : {"asleep", "checking", "comparing", "recording", "sending"},
                      left : SUBSET Paths, path : Paths \cup {None}, time : Nat,
                      changed : SUBSET Paths]
        /\ poll'.at \in {"asleep", "sending"}
    <3>1. CASE poll.changed = {}
      <4>1. poll' = Asleep /\ queue' = queue
        BY <1>6, <3>1 DEF PollSend
      <4> QED
        BY <4>1 DEF OtherTypes, Asleep
    <3>2. CASE poll.changed # {}
      <4>1. PICK p \in poll.changed :
              queue' = Append(queue, p) /\ poll' = [poll EXCEPT !.at = "sending", !.changed = @ \ {p}]
        BY <1>6, <3>2 DEF PollSend
      <4>2. p \in Paths
        BY DEF OtherTypes
      <4>3. queue' \in Seq(Paths)
        BY <4>1, <4>2, AppendProperties DEF OtherTypes
      <4> QED
        BY <4>1, <4>3 DEF OtherTypes
    <3> QED
      BY <3>1, <3>2
  <2> QED
    BY <1>6, <2>1 DEF PollSend, OtherTypes, files, ebpf, tracking, bounds
<1> QED
  BY <1>1, <1>2, <1>3, <1>4, <1>5, <1>6 DEF Editing, PollNext

\* One entry of a copy is written.
LEMMA EntryWritten ==
  ASSUME NEW K \in [Containers -> [Maps -> Slot]], NEW c \in Containers, NEW m \in Maps,
         NEW e \in Slot
  PROVE  /\ [K EXCEPT ![c][m] = e] \in [Containers -> [Maps -> Slot]]
         /\ [K EXCEPT ![c][m] = e][c][m] = e
         /\ \A d \in Containers, n \in Maps :
              d # c \/ n # m => [K EXCEPT ![c][m] = e][d][n] = K[d][n]
<1>1. K[c] \in [Maps -> Slot] /\ [K[c] EXCEPT ![m] = e] \in [Maps -> Slot]
  OBVIOUS
<1>2. [K EXCEPT ![c][m] = e] = [K EXCEPT ![c] = [K[c] EXCEPT ![m] = e]]
  OBVIOUS
<1> QED
  BY <1>1, <1>2

\* Applying a policy.
LEMMA ApplyTypes ==
  ASSUME TypeOK, Shape, NEW a \in Actors, ApplyNext(a)
  PROVE  OtherTypes'
<1> USE OtherTypesHold
<1>1. /\ job[a] \in Job /\ ShapeOf(a)
      /\ job[a].at \notin {"idle", "lookup"} => job[a].container \in Containers
  BY DEF TypeOK, Shape
<1>2. CASE Snapshot(a) \/ UpdateFailed(a) \/ NothingToPush(a) \/ PushRejected(a) \/ RolledBack(a)
  BY <1>2 DEF Snapshot, UpdateFailed, NothingToPush, PushRejected, RolledBack, OtherTypes,
              files, ebpf, tracking, monitor, bounds
<1>3. CASE WriteMap(a)
  <2> DEFINE w == Head(job[a].todo)
  <2>1. job[a].container \in Containers /\ job[a].todo # <<>>
    BY <1>1, <1>3 DEF WriteMap, ShapeOf
  <2>2. w \in Write
    BY <1>1, <2>1, HeadTailProperties DEF Job
  <2>3. /\ kernel \in [Containers -> [Maps -> Slot]] /\ mirror \in [Containers -> [Maps -> Slot]]
        /\ w.map \in Maps /\ w.entry \in Slot
    BY <2>2 DEF OtherTypes, Write
  <2>4. /\ w.copy = "kernel" => /\ kernel' = [kernel EXCEPT ![job[a].container][w.map] = w.entry]
                                /\ mirror' = mirror
        /\ w.copy # "kernel" => /\ mirror' = [mirror EXCEPT ![job[a].container][w.map] = w.entry]
                                /\ kernel' = kernel
    BY <1>3 DEF WriteMap
  <2> HIDE DEF w
  <2>5. kernel' \in [Containers -> [Maps -> Slot]] /\ mirror' \in [Containers -> [Maps -> Slot]]
    <3> DEFINE c == job[a].container
               m == w.map
               e == w.entry
    <3>1. c \in Containers /\ m \in Maps /\ e \in Slot
      BY <2>1, <2>3
    <3> HIDE DEF c, m, e
    <3>2. [kernel EXCEPT ![c][m] = e] \in [Containers -> [Maps -> Slot]]
      BY <2>3, <3>1, EntryWritten
    <3>3. [mirror EXCEPT ![c][m] = e] \in [Containers -> [Maps -> Slot]]
      BY <2>3, <3>1, EntryWritten
    <3> QED
      BY <2>3, <2>4, <3>2, <3>3 DEF c, m, e
  <2> QED
    BY <1>3, <2>5 DEF WriteMap, OtherTypes, files, tracking, monitor, bounds
<1>4. CASE PushAccepted(a)
  <2>1. job[a].container \in Containers /\ job[a].entry \in Slot
    BY <1>1, <1>4 DEF PushAccepted, Pushing, Written, Job
  <2>2. proxy' \in [Containers -> Slot]
    BY <1>4, <2>1 DEF PushAccepted, OtherTypes
  <2> QED
    BY <1>4, <2>2 DEF PushAccepted, OtherTypes, files, ebpf, tracking, monitor, bounds
<1>5. CASE PushFailed(a)
  <2>1. job[a].container \in Containers /\ job[a].entry \in Slot
    BY <1>1, <1>5 DEF PushFailed, Pushing, Written, Job
  <2>2. proxy' \in [Containers -> Slot]
    BY <1>5, <2>1 DEF PushFailed, OtherTypes
  <2>3. faults' \in 0 .. MaxFaults
    BY <1>5, BoundsAssumption DEF PushFailed, OtherTypes
  <2> QED
    BY <1>5, <2>2, <2>3 DEF PushFailed, OtherTypes, files, ebpf, tracking, monitor, bounds
<1> QED
  BY <1>2, <1>3, <1>4, <1>5 DEF ApplyNext

\* Messages, and the rest of what "sock" and "watcher" do.
LEMMA ThreadTypes ==
  ASSUME TypeOK, Shape,
         \/ Message \/ Track \/ AddWatch \/ SockBlocked \/ TellProxy \/ Untrack \/ Forget
         \/ TakeChange \/ FindOwner
  PROVE  OtherTypes'
<1> DEFINE c == job["sock"].container
           e == job["sock"].entry
<1>1. /\ OtherTypes /\ ShapeOf("sock")
      /\ job["sock"].at \notin {"idle", "lookup"} => c \in Containers
      /\ job["sock"].at \in Enrolling => e \in Entry
  BY OtherTypesHold DEF TypeOK, Shape, ShapeOf, Actors
<1>2. ASSUME messages < MaxMessages, messages' = messages + 1 PROVE messages' \in 0 .. MaxMessages
  BY <1>1, <1>2, BoundsAssumption DEF OtherTypes
<1>3. ASSUME NEW d \in Containers, NEW p \in Paths, Register(d, p)
      PROVE  OtherTypes'
  <2>1. history' = [history EXCEPT !.asked = @ \cup {<<d, p>>}] /\ messages' \in 0 .. MaxMessages
    BY <1>2, <1>3 DEF Register
  <2>2. history.asked \cup {<<d, p>>} \in SUBSET (Containers \X Paths)
    BY <1>1 DEF OtherTypes, History
  <2>3. history' \in History
    BY <1>1, <2>1, <2>2, HistoryChanges DEF OtherTypes
  <2> QED
    BY <1>1, <1>3, <2>1, <2>3 DEF Register, OtherTypes, files, ebpf, tracking, monitor
<1>4. ASSUME NEW d \in Containers, Unregister(d)
      PROVE  OtherTypes'
  <2>1. messages' \in 0 .. MaxMessages
    BY <1>2, <1>4 DEF Unregister
  <2>2. PICK o \in SUBSET Containers :
          history' = [history EXCEPT !.gone = @ \cup {d}, !.overlapped = o]
    BY <1>1, <1>4 DEF Unregister, OtherTypes, History
  <2>3. history' \in History
    <3>1. history.gone \cup {d} \in SUBSET Containers
      BY <1>1 DEF OtherTypes, History
    <3> QED
      BY <1>1, <2>2, <3>1, HistoryChanges DEF OtherTypes
  <2> QED
    BY <1>1, <1>4, <2>1, <2>3 DEF Unregister, OtherTypes, files, ebpf, tracking, monitor
<1>5. CASE Track
  <2>1. c \in Containers /\ e.path \in Paths
    BY <1>1, <1>5 DEF Track, Go, Enrolling, Entry
  <2>2. registered' \subseteq Containers /\ configs' \in [Containers -> Paths \cup {None}]
    BY <1>1, <1>5, <2>1 DEF Track, OtherTypes
  <2>3. history' = history \/ history' = [history EXCEPT !.bare = @ \cup {c}]
    BY <1>5 DEF Track
  <2>4. history' \in History
    <3>1. history.bare \cup {c} \in SUBSET Containers
      BY <1>1, <2>1 DEF OtherTypes, History
    <3> QED
      BY <1>1, <2>3, <3>1, HistoryChanges DEF OtherTypes
  <2> QED
    BY <1>1, <1>5, <2>1, <2>2, <2>4 DEF Track, OtherTypes, files, ebpf, monitor, bounds
<1>6. CASE AddWatch
  <2>1. e.path \in Paths /\ mtime[e.path] \in Nat
    BY <1>1, <1>6 DEF AddWatch, Enrolling, Entry, OtherTypes
  <2>2. watched' \in [Paths -> Int]
    BY <1>1, <1>6, <2>1 DEF AddWatch, OtherTypes
  <2> QED
    BY <1>1, <1>6, <2>2 DEF AddWatch, OtherTypes, files, ebpf, tracking, bounds
<1>7. CASE SockBlocked
  BY <1>1, <1>7 DEF SockBlocked, OtherTypes, files, ebpf, tracking, monitor, bounds
<1>8. CASE TellProxy
  <2>1. c \in Containers
    BY <1>1, <1>8 DEF TellProxy, Go
  <2>2. proxy' \in [Containers -> Slot]
    BY <1>1, <1>8 DEF TellProxy, OtherTypes, Slot
  <2>3. faults' \in 0 .. MaxFaults
    BY <1>1, <1>8, BoundsAssumption DEF TellProxy, OtherTypes
  <2>4. history' = history \/ history' = [history EXCEPT !.unheard = @ \cup {c}]
    BY <1>8 DEF TellProxy
  <2>5. history' \in History
    <3>1. history.unheard \cup {c} \in SUBSET Containers
      BY <1>1, <2>1 DEF OtherTypes, History
    <3> QED
      BY <1>1, <2>4, <3>1, HistoryChanges DEF OtherTypes
  <2> QED
    BY <1>1, <1>8, <2>2, <2>3, <2>5 DEF TellProxy, OtherTypes, files, ebpf, tracking, monitor
<1>9. CASE Untrack
  <2>1. configs' \in [Containers -> Paths \cup {None}]
    BY <1>1, <1>9 DEF Untrack, OtherTypes
  <2>2. watched' \in [Paths -> Int]
    BY <1>1, <1>9 DEF Untrack, OtherTypes, Unwatched
  <2> QED
    BY <1>1, <1>9, <2>1, <2>2 DEF Untrack, OtherTypes, files, ebpf, bounds
<1>10. CASE Forget
  BY <1>1, <1>10 DEF Forget, OtherTypes, files, ebpf, monitor, bounds
<1>11. CASE TakeChange
  <2>1. queue' \in Seq(Paths)
    BY <1>1, <1>11, HeadTailProperties DEF TakeChange, OtherTypes
  <2> QED
    BY <1>1, <1>11, <2>1 DEF TakeChange, OtherTypes, files, ebpf, tracking, bounds
<1>12. CASE FindOwner
  <2>1. history' = history \/ \E d \in Containers : history' = [history EXCEPT !.overlapped = @ \cup {d}]
    <3>1. ASSUME NEW d \in Containers,
                 history' = [history EXCEPT !.overlapped = IF d \in history.gone THEN @ \cup {d} ELSE @]
          PROVE  history' = history \/ history' = [history EXCEPT !.overlapped = @ \cup {d}]
      BY <1>1, <3>1 DEF OtherTypes, History
    <3> QED
      BY <1>12, <3>1 DEF FindOwner
  <2>2. history' \in History
    <3>1. ASSUME NEW d \in Containers, history' = [history EXCEPT !.overlapped = @ \cup {d}]
          PROVE  history' \in History
      <4>1. history.overlapped \cup {d} \in SUBSET Containers
        BY <1>1 DEF OtherTypes, History
      <4> QED
        BY <1>1, <3>1, <4>1, HistoryChanges DEF OtherTypes
    <3> QED
      BY <1>1, <2>1, <3>1 DEF OtherTypes
  <2> QED
    BY <1>1, <1>12, <2>2 DEF FindOwner, OtherTypes, files, ebpf, tracking, monitor, bounds
<1> QED
  BY <1>3, <1>4, <1>5, <1>6, <1>7, <1>8, <1>9, <1>10, <1>11, <1>12 DEF Message

\* Every step keeps types and shapes.
LEMMA TypeStep ==
  ASSUME TypeOK, Shape, [Next]_vars
  PROVE  TypeOK' /\ Shape'
<1>1. ASSUME JobType', \A b \in Actors : ShapeOf(b)', OtherTypes'
      PROVE  TypeOK' /\ Shape'
  BY <1>1 DEF TypeOK, Shape, JobType, OtherTypes, History
<1>2. CASE Message
  BY <1>1, <1>2, SockShape, ThreadTypes DEF Message
<1>3. CASE Editing \/ PollNext
  <2>1. UNCHANGED job
    BY <1>3 DEF Editing, PollNext, Edit, PollKeys, PollStat, PollCompare, PollRecord, PollSend
  <2>2. JobType' /\ \A b \in Actors : ShapeOf(b)'
    BY <2>1 DEF TypeOK, Shape, JobType, ShapeOf, Left, Found
  <2> QED
    BY <1>1, <1>3, <2>2, MonitorTypes, OtherTypesHold
<1>4. CASE SockNext
  <2>1. "sock" \in Actors
    BY DEF Actors
  <2>2. CASE ApplyNext("sock")
    BY <1>1, <2>1, <2>2, ApplyShape, ApplyTypes
  <2>3. CASE Track \/ AddWatch \/ SockBlocked \/ TellProxy \/ Untrack \/ Forget
    BY <1>1, <2>3, SockShape, ThreadTypes
  <2> QED
    BY <1>4, <2>2, <2>3 DEF SockNext
<1>5. CASE WatcherNext
  <2>1. "watcher" \in Actors
    BY DEF Actors
  <2>2. CASE ApplyNext("watcher")
    BY <1>1, <2>1, <2>2, ApplyShape, ApplyTypes
  <2>3. CASE TakeChange \/ FindOwner
    BY <1>1, <2>3, WatcherShape, ThreadTypes
  <2> QED
    BY <1>5, <2>2, <2>3 DEF WatcherNext
<1>6. CASE UNCHANGED vars
  <2>1. UNCHANGED <<job>> /\ OtherTypes'
    BY <1>6, OtherTypesHold DEF vars, OtherTypes
  <2>2. JobType' /\ \A b \in Actors : ShapeOf(b)'
    BY <2>1 DEF TypeOK, Shape, JobType, ShapeOf, Left, Found
  <2> QED
    BY <1>1, <2>1, <2>2
<1> QED
  BY <1>2, <1>3, <1>4, <1>5, <1>6 DEF Next

----------------------------------------------------------------------------
(* What is enforced.                                                       *)

\* Everything they are about but the jobs.
Scene == <<kernel, mirror, proxy, registered, configs, watched, history>>

\* Steps that change nothing they are about.
LEMMA QuietStep ==
  ASSUME Enforced, UNCHANGED <<Scene, job>>
  PROVE  Enforced'
BY DEF Enforced, Scene, OwnEntries, OwnJobs, Own, Copy, Tables, SockOn, RegisteredHeld, Blanks,
       BlankExcused, PolicyComes, PolicyCame, Held, Excused, Removed, Clean, Watching, Left, Found

\* The poll thread records a time of a path.
LEMMA RecordStep ==
  ASSUME TypeOK, Shape, Enforced, PollRecord
  PROVE  Enforced'
<1>1. /\ UNCHANGED <<kernel, mirror, proxy, registered, configs, job, history>>
      /\ \A p \in Paths : watched[p] # Unwatched => watched'[p] # Unwatched
  <2>1. poll.time \in Nat /\ poll.time # Unwatched
    BY DEF TypeOK, Unwatched
  <2> QED
    BY <2>1 DEF PollRecord, TypeOK, files, ebpf, tracking, bounds
<1>2. (OwnEntries /\ OwnJobs /\ Tables)'
  BY <1>1 DEF Enforced, OwnEntries, OwnJobs, Own, Copy, Tables, SockOn, Found
<1>3. (RegisteredHeld /\ Blanks /\ PolicyComes /\ PolicyCame)'
  BY <1>1 DEF Enforced, RegisteredHeld, Blanks, BlankExcused, PolicyComes, PolicyCame, Held, Excused,
              Copy, Left
<1>4. Removed'
  BY <1>1 DEF Enforced, Removed, Clean, Copy, SockOn, Left
<1>5. Watching'
  BY <1>1 DEF Enforced, Watching, SockOn, TypeOK
<1> QED
  BY <1>2, <1>3, <1>4, <1>5 DEF Enforced

\* An actor comes to rest, except "sock" in the middle of a change of the tables.
LEMMA IdleStep ==
  ASSUME TypeOK, Shape, Enforced, NEW a \in Actors, Become(a, Idle), UNCHANGED Scene,
         job[a].at \notin {"watching", "removing", "forgetting"}
  PROVE  Enforced'
<1>1. /\ job'[a].at = "idle" /\ job'[a].container = None /\ Left(a)' = {} /\ Found(a)' = {}
      /\ \A b \in Actors \ {a} : job'[b] = job[b]
  BY Becomes, EmptyRange DEF Idle, Left, Found
<1>2. UNCHANGED <<kernel, mirror, proxy, registered, configs, watched, history>>
  BY DEF Scene
<1>3. "sock" \in Actors /\ "watcher" \in Actors
  BY DEF Actors
<1>4. (OwnEntries /\ OwnJobs)'
  BY <1>1, <1>2 DEF Enforced, OwnEntries, OwnJobs, Own, Copy, Found, Applying, Enrolling
<1>5. Tables'
  BY <1>1, <1>2, <1>3 DEF Enforced, Tables, SockOn, Applying, Enrolling, Leaving
<1>6. (RegisteredHeld /\ Blanks /\ PolicyComes /\ PolicyCame)'
  BY <1>1, <1>2, <1>3 DEF Enforced, RegisteredHeld, Blanks, BlankExcused, PolicyComes, PolicyCame,
                          Held, Excused, Copy, Left, Applying
<1>7. Removed'
  BY <1>1, <1>2, <1>3 DEF Enforced, Removed, Clean, Copy, SockOn, Left, Applying
<1>8. Watching'
  BY <1>1, <1>2, <1>3 DEF Enforced, Watching, SockOn
<1> QED
  BY <1>4, <1>5, <1>6, <1>7, <1>8 DEF Enforced

\* One mirror is read.
LEMMA SnapshotStep ==
  ASSUME TypeOK, Shape, Enforced, NEW a \in Actors, Snapshot(a)
  PROVE  Enforced'
<1> DEFINE j == job[a]
           m == Snapshotted[Len(j.old) + 1]
           found == mirror[j.container][m]
<1>1. /\ j.at = "snapshot" /\ j.container \in Containers /\ j.old \in Seq(Slot)
      /\ Len(j.old) \in {0, 1, 2} /\ j.entry \in Entry
  BY DEF Snapshot, TypeOK, Job, Shape, ShapeOf, Applying
<1>2. m \in Maps /\ (j.old = <<>> => m = "policy")
  <2>1. Len(j.old) + 1 \in {1, 2, 3}
    <3> DEFINE n == Len(j.old)
    <3>1. n \in {0, 1, 2}
      BY <1>1
    <3> HIDE DEF n
    <3>2. n = 0 \/ n = 1 \/ n = 2
      BY <3>1
    <3>3. n + 1 \in {1, 2, 3}
      BY <3>2
    <3> QED
      BY <3>3 DEF n
  <2>2. j.old = <<>> => Len(j.old) + 1 = 1
    BY SMT
  <2> QED
    BY <2>1, <2>2, SnapshotOrder
<1>3. found \in Slot /\ found = Copy("mirror", j.container, m)
  BY <1>1, <1>2 DEF TypeOK, Copy
<1>4. PICK next :
        /\ Become(a, next) /\ next.container = j.container /\ next.entry = j.entry
        /\ next.old = Append(j.old, found)
        /\ \/ next.at = "snapshot"
           \/ next.at = "writing" /\ next.todo = Update(j.entry)
  <2> DEFINE old == Append(j.old, found)
  <2>1. j \in Job
    BY DEF TypeOK
  <2>2. CASE Len(old) < Len(Snapshotted)
    <3>1. Become(a, [j EXCEPT !.old = old])
      BY <2>2 DEF Snapshot
    <3> QED
      <4> DEFINE next == [j EXCEPT !.old = old]
      <4>1. Become(a, next)
        BY <3>1
      <4>2. /\ next.container = j.container /\ next.entry = j.entry
            /\ next.old = old /\ next.at = "snapshot"
        <5> HIDE DEF old
        <5> QED
          BY <1>1, <2>1 DEF Job
      <4> HIDE DEF next
      <4> QED
        BY <4>1, <4>2
  <2>3. CASE ~(Len(old) < Len(Snapshotted))
    <3>1. Become(a, [j EXCEPT !.at = "writing", !.old = old, !.todo = Update(j.entry)])
      BY <2>3 DEF Snapshot
    <3> DEFINE next == [j EXCEPT !.at = "writing", !.old = old, !.todo = Update(j.entry)]
    <3>2. Become(a, next)
      BY <3>1
    <3>3. /\ next.container = j.container /\ next.entry = j.entry /\ next.old = old
          /\ next.at = "writing" /\ next.todo = Update(j.entry)
      <4> HIDE DEF old
      <4> QED
        BY <2>1 DEF Job
    <3> HIDE DEF next
    <3> QED
      BY <3>2, <3>3
  <2> QED
    BY <2>2, <2>3
<1> HIDE DEF m, found
<1>5. /\ Range(next.old) = Found(a) \cup {found}
      /\ next.old # <<>>
      /\ next.old[1] = None => (j.old = <<>> /\ found = None) \/ (j.old # <<>> /\ j.old[1] = None)
  <2>1. /\ Range(Append(j.old, found)) = Range(j.old) \cup {found}
        /\ j.old # <<>> => Append(j.old, found)[1] = j.old[1]
        /\ j.old = <<>> => Append(j.old, found)[1] = found
    BY <1>1, <1>3, AppendRange
  <2>2. Append(j.old, found) # <<>>
    BY <1>1, <1>3, AppendProperties
  <2> QED
    BY <1>4, <2>1, <2>2 DEF Found
<1>6. UNCHANGED <<kernel, mirror, proxy, registered, configs, watched, history>>
  BY DEF Snapshot, ebpf, tracking, monitor
<1>7. /\ job'[a] = next /\ (\A b \in Actors \ {a} : job'[b] = job[b])
      /\ "sock" \in Actors /\ "watcher" \in Actors
  BY <1>4, Becomes DEF Actors
<1>8. OwnEntries'
  BY <1>6 DEF Enforced, OwnEntries, Own, Copy
<1>9. OwnJobs'
  <2>1. Own(j.container, found)
    BY <1>1, <1>2, <1>3 DEF Enforced, OwnEntries, Copies
  <2>2. Own(j.container, j.entry) /\ \A e \in Found(a) : Own(j.container, e)
    BY <1>1 DEF Enforced, OwnJobs, Applying
  <2>3. \A e \in Found(a)' : Own(j.container, e)
    BY <1>5, <1>7, <2>1, <2>2 DEF Found
  <2> QED
    BY <1>4, <1>6, <1>7, <2>2, <2>3 DEF Enforced, OwnJobs, Own, Found
<1>10. Tables'
  BY <1>1, <1>4, <1>6, <1>7 DEF Enforced, Tables, SockOn, Applying, Enrolling, Leaving
<1>11. (RegisteredHeld /\ PolicyCame)'
  BY <1>4, <1>6, <1>7 DEF Enforced, RegisteredHeld, PolicyCame, Held, Excused, Copy
<1>12. Blanks'
  <2>1. j.container \in registered /\ next.old[1] = None => Excused(j.container)
    BY <1>1, <1>2, <1>3, <1>5 DEF Enforced, RegisteredHeld, Blanks, BlankExcused, Held, Applying, Copies
  <2>2. BlankExcused(a)'
    BY <1>4, <1>6, <1>7, <2>1 DEF BlankExcused, Excused
  <2>3. \A b \in Actors \ {a} : BlankExcused(b)'
    BY <1>6, <1>7 DEF Enforced, Blanks, BlankExcused, Excused
  <2> QED
    BY <2>2, <2>3 DEF Blanks
<1>13. PolicyComes'
  <2>1. CASE a = "sock" /\ next.at = "writing"
    <3>1. j.entry.config \in Secured \ Oversized =>
            \A k \in Copies : \E w \in Range(next.todo) : w.copy = k /\ w.map = "policy"
      BY <1>1, <1>4, <2>1, UpdateWrites
    <3> QED
      BY <1>4, <1>7, <2>1, <3>1 DEF PolicyComes, Left
  <2>2. CASE a = "sock" /\ next.at # "writing"
    BY <1>7, <2>2 DEF PolicyComes
  <2>3. CASE a # "sock"
    BY <1>6, <1>7, <2>3 DEF Enforced, PolicyComes, Excused, Copy, Left
  <2> QED
    BY <2>1, <2>2, <2>3
<1>14. Removed'
  BY <1>1, <1>4, <1>6, <1>7 DEF Enforced, Removed, Clean, Copy, SockOn, Left, Applying
<1>15. Watching'
  BY <1>1, <1>4, <1>6, <1>7 DEF Enforced, Watching, SockOn
<1> QED
  BY <1>8, <1>9, <1>10, <1>11, <1>12, <1>13, <1>14, <1>15 DEF Enforced

\* What one write does, and what is known of it.
LEMMA WriteEffect ==
  ASSUME TypeOK, Shape, Enforced, NEW a \in Actors, WriteMap(a)
  PROVE  LET c == job[a].container
             w == Head(job[a].todo)
         IN /\ c \in Containers /\ w \in Left(a) /\ w.map \in Maps /\ w.entry \in Slot
            /\ Left(a) = {w} \cup Left(a)'
            /\ \A d \in Containers, k \in Copies, m \in Maps :
                 Copy(k, d, m)' = IF d = c /\ k = w.copy /\ m = w.map THEN w.entry ELSE Copy(k, d, m)
            /\ job[a].at \in {"writing", "restoring", "blocking", "removing"}
            /\ job'[a].at = job[a].at /\ job'[a].container = c /\ job'[a].entry = job[a].entry
            /\ job'[a].old = job[a].old
            /\ \A b \in Actors \ {a} : job'[b] = job[b]
            /\ UNCHANGED <<proxy, registered, configs, watched, history>>
<1> DEFINE c == job[a].container
           w == Head(job[a].todo)
           next == [job[a] EXCEPT !.todo = Tail(@)]
<1>1. job[a] \in Job /\ ShapeOf(a) /\ (job[a].at \notin {"idle", "lookup"} => c \in Containers)
  BY DEF TypeOK, Shape
<1>2. job[a].todo # <<>> /\ job[a].todo \in Seq(Write) /\ Become(a, next)
  BY <1>1 DEF WriteMap, Job
<1>3. w \in Write /\ Left(a) = {w} \cup Range(Tail(job[a].todo))
  BY <1>2, HeadTailRange DEF Left
<1>4. job[a].at \in {"writing", "restoring", "blocking", "removing"} /\ c \in Containers
  BY <1>1, <1>2 DEF ShapeOf
<1>5. /\ job'[a].at = job[a].at /\ job'[a].container = c /\ job'[a].entry = job[a].entry
      /\ job'[a].old = job[a].old /\ job'[a].todo = Tail(job[a].todo)
      /\ \A b \in Actors \ {a} : job'[b] = job[b]
  <2>1. job'[a] = next /\ \A b \in Actors \ {a} : job'[b] = job[b]
    BY <1>2, Becomes
  <2>2. /\ next.at = job[a].at /\ next.container = job[a].container /\ next.entry = job[a].entry
        /\ next.old = job[a].old /\ next.todo = Tail(job[a].todo)
    BY <1>1 DEF Job
  <2> HIDE DEF next
  <2> QED
    BY <2>1, <2>2
<1>6. \A d \in Containers, k \in Copies, m \in Maps :
        Copy(k, d, m)' = IF d = c /\ k = w.copy /\ m = w.map THEN w.entry ELSE Copy(k, d, m)
  <2>1. /\ kernel \in [Containers -> [Maps -> Slot]] /\ mirror \in [Containers -> [Maps -> Slot]]
        /\ w.map \in Maps /\ w.entry \in Slot /\ w.copy \in Copies
    BY <1>3 DEF TypeOK, Write
  <2>2. /\ w.copy = "kernel" => /\ kernel' = [kernel EXCEPT ![c][w.map] = w.entry]
                                /\ mirror' = mirror
        /\ w.copy # "kernel" => /\ mirror' = [mirror EXCEPT ![c][w.map] = w.entry]
                                /\ kernel' = kernel
    BY DEF WriteMap
  <2> DEFINE m == w.map
             e == w.entry
             k == w.copy
  <2>3. m \in Maps /\ e \in Slot /\ k \in Copies
    BY <2>1
  <2>4. /\ k = "kernel" => kernel' = [kernel EXCEPT ![c][m] = e] /\ mirror' = mirror
        /\ k # "kernel" => mirror' = [mirror EXCEPT ![c][m] = e] /\ kernel' = kernel
    BY <2>2
  <2> HIDE DEF w, m, e, k
  <2>5. \A d \in Containers, n \in Maps :
          [kernel EXCEPT ![c][m] = e][d][n] = IF d = c /\ n = m THEN e ELSE kernel[d][n]
    BY <1>4, <2>1, <2>3, EntryWritten
  <2>6. \A d \in Containers, n \in Maps :
          [mirror EXCEPT ![c][m] = e][d][n] = IF d = c /\ n = m THEN e ELSE mirror[d][n]
    BY <1>4, <2>1, <2>3, EntryWritten
  <2>7. \A d \in Containers, o \in Copies, n \in Maps :
          Copy(o, d, n)' = IF d = c /\ o = k /\ n = m THEN e ELSE Copy(o, d, n)
    <3>1. SUFFICES ASSUME NEW d \in Containers, NEW o \in Copies, NEW n \in Maps
                   PROVE  Copy(o, d, n)' = IF d = c /\ o = k /\ n = m THEN e ELSE Copy(o, d, n)
      OBVIOUS
    <3>2. /\ o = "kernel" => Copy(o, d, n)' = kernel'[d][n] /\ Copy(o, d, n) = kernel[d][n]
          /\ o = "mirror" => Copy(o, d, n)' = mirror'[d][n] /\ Copy(o, d, n) = mirror[d][n]
      BY DEF Copy
    <3>3. (o = "kernel" \/ o = "mirror") /\ (k = "kernel" \/ k = "mirror")
      BY <2>3 DEF Copies
    <3>4. k = "kernel" =>
            kernel'[d][n] = (IF d = c /\ n = m THEN e ELSE kernel[d][n]) /\ mirror'[d][n] = mirror[d][n]
      BY <2>4, <2>5
    <3>5. k = "mirror" =>
            mirror'[d][n] = (IF d = c /\ n = m THEN e ELSE mirror[d][n]) /\ kernel'[d][n] = kernel[d][n]
      BY <2>4, <2>6
    <3> QED
      BY <3>2, <3>3, <3>4, <3>5
  <2> QED
    BY <2>7 DEF m, e, k
<1>7. UNCHANGED <<proxy, registered, configs, watched, history>>
  BY DEF WriteMap, tracking, monitor
<1> QED
  BY <1>3, <1>4, <1>5, <1>6, <1>7 DEF Left, Write

\* One write of one copy of one map.
LEMMA WriteStep ==
  ASSUME TypeOK, Shape, Enforced, NEW a \in Actors, WriteMap(a)
  PROVE  Enforced'
<1> DEFINE c == job[a].container
           w == Head(job[a].todo)
<1>1. /\ c \in Containers /\ w \in Left(a) /\ w.map \in Maps /\ w.entry \in Slot
      /\ Left(a) = {w} \cup Left(a)'
      /\ \A d \in Containers, k \in Copies, m \in Maps :
           Copy(k, d, m)' = IF d = c /\ k = w.copy /\ m = w.map THEN w.entry ELSE Copy(k, d, m)
      /\ job[a].at \in {"writing", "restoring", "blocking", "removing"}
  BY WriteEffect
<1>2. /\ job'[a].at = job[a].at /\ job'[a].container = c /\ job'[a].entry = job[a].entry
      /\ job'[a].old = job[a].old
      /\ \A b \in Actors \ {a} : job'[b] = job[b]
      /\ UNCHANGED <<proxy, registered, configs, watched, history>>
  BY WriteEffect
<1>3. ShapeOf(a) /\ "sock" \in Actors /\ "watcher" \in Actors
      /\ (a = "watcher" => job[a].at \in {"writing", "restoring"})
  BY <1>1 DEF Shape, Actors, ShapeOf, PlacesOf, Applying
<1> HIDE DEF w
<1>4. /\ job[a].at \in {"writing", "blocking"} => w.entry = job[a].entry /\ w.entry # None
      /\ job[a].at = "removing" => w.entry = None
      /\ job[a].at = "restoring" => w.entry \in Found(a) /\ (w.map = "policy" => w.entry = job[a].old[1])
  BY <1>1, <1>3, NamesAssumption DEF ShapeOf, Applying, Enrolling, Entry
<1>5. Own(c, w.entry)
  <2>1. CASE job[a].at = "removing"
    BY <1>4, <2>1 DEF Own
  <2>2. CASE job[a].at # "removing"
    BY <1>1, <1>4, <2>2 DEF Enforced, OwnJobs, Applying, Enrolling
  <2> QED
    BY <2>1, <2>2
<1>6. w.map = "policy" /\ w.entry = None =>
        /\ c \in registered => Excused(c)
        /\ a = "watcher" => Excused(c)
        /\ a = "sock" => job[a].at \in {"restoring", "removing"}
  <2> SUFFICES ASSUME w.map = "policy", w.entry = None
               PROVE  /\ c \in registered => Excused(c)
                      /\ a = "watcher" => Excused(c)
                      /\ a = "sock" => job[a].at \in {"restoring", "removing"}
    OBVIOUS
  <2>1. CASE job[a].at = "removing"
    BY <1>3, <2>1 DEF Enforced, Tables, Excused, Leaving, Actors
  <2>2. CASE job[a].at = "restoring"
    <3>1. job[a].old # <<>> /\ job[a].old[1] = None
      BY <1>3, <1>4, <2>2 DEF ShapeOf
    <3>2. c \in registered => Excused(c)
      BY <2>2, <3>1 DEF Enforced, Blanks, BlankExcused, Applying
    <3>3. a = "watcher" => c \in registered \cup history.gone
      BY <2>2 DEF Enforced, Tables, Applying
    <3> QED
      BY <2>2, <3>2, <3>3 DEF Excused
  <2> QED
    BY <1>1, <1>4, <2>1, <2>2
<1>7. OwnEntries'
  BY <1>1, <1>2, <1>5 DEF Enforced, OwnEntries, Own
<1>8. OwnJobs'
  BY <1>2 DEF Enforced, OwnJobs, Own, Found
<1>9. Tables'
  BY <1>2, <1>3 DEF Enforced, Tables, SockOn
<1>10. RegisteredHeld'
  BY <1>1, <1>2, <1>6 DEF Enforced, RegisteredHeld, Held, Excused, Maps, TypeOK
<1>11. Blanks'
  BY <1>2 DEF Enforced, Blanks, BlankExcused, Excused
<1>12. PolicyComes'
  <2> SUFFICES ASSUME job["sock"].at = "writing",
                      job["sock"].entry.config \in Secured \ Oversized,
                      NEW k \in Copies
               PROVE  \/ Excused(job["sock"].container)
                      \/ (Copy(k, job["sock"].container, "policy"))' # None
                      \/ \E v \in Left("sock")' : v.copy = k /\ v.map = "policy"
    BY <1>2, <1>3 DEF PolicyComes, Excused
  <2>1. job["sock"].container \in Containers /\ "policy" \in Maps
    BY DEF TypeOK, Actors, Maps
  <2>2. \/ Excused(job["sock"].container)
        \/ Copy(k, job["sock"].container, "policy") # None
        \/ \E v \in Left("sock") : v.copy = k /\ v.map = "policy"
    BY DEF Enforced, PolicyComes
  <2>3. job'["sock"].container = job["sock"].container
    BY <1>2, <1>3
  <2>4. CASE a = "sock"
    <3>1. w.entry # None
      BY <1>4, <2>4
    <3> QED
      BY <1>1, <2>1, <2>2, <2>3, <2>4, <3>1
  <2>5. CASE a = "watcher"
    <3>1. Left("sock")' = Left("sock")
      BY <1>2, <1>3, <2>5 DEF Left
    <3> QED
      BY <1>1, <1>6, <2>1, <2>2, <2>3, <2>5, <3>1
  <2> QED
    BY <2>4, <2>5 DEF Actors
<1>13. PolicyCame'
  <2> SUFFICES ASSUME job["sock"].at = "tracking", job["sock"].entry.config \in Secured
               PROVE  Held(job["sock"].container)'
    BY <1>2, <1>3 DEF PolicyCame
  <2>1. a = "watcher" /\ job["sock"].container \in Containers /\ "policy" \in Maps
    BY <1>1 DEF TypeOK, Actors, Maps
  <2>2. Held(job["sock"].container) /\ job'["sock"] = job["sock"]
    BY <1>2, <1>3, <2>1 DEF Enforced, PolicyCame
  <2> QED
    BY <1>1, <1>2, <1>6, <2>1, <2>2 DEF Held, Excused
<1>14. Removed'
  <2>1. job'["watcher"].at \in Applying => job'["watcher"].container \notin Clean'
    BY <1>2, <1>3 DEF Enforced, Removed, Clean
  <2>2. ASSUME NEW d \in Clean', NEW k \in Copies, NEW m \in Maps
        PROVE  \/ (Copy(k, d, m))' = None
               \/ job'["sock"].at = "removing" /\ job'["sock"].container = d
                  /\ \E v \in Left("sock")' : v.copy = k /\ v.map = m
    <3>1. d \in Clean /\ d \in Containers
      BY <1>2, <2>2 DEF Clean, TypeOK
    <3>2. \/ Copy(k, d, m) = None
          \/ job["sock"].at = "removing" /\ SockOn(d)
             /\ \E v \in Left("sock") : v.copy = k /\ v.map = m
      BY <2>2, <3>1 DEF Enforced, Removed
    <3>3. CASE a = "watcher"
      <4>1. d # c
        BY <1>3, <3>1, <3>3 DEF Enforced, Removed, Applying
      <4>2. job'["sock"] = job["sock"] /\ Left("sock")' = Left("sock")
        BY <1>2, <1>3, <3>3 DEF Left
      <4> QED
        BY <1>1, <2>2, <3>1, <3>2, <4>1, <4>2 DEF SockOn
    <3>4. CASE a = "sock"
      <4>1. d = c => job[a].at = "removing" /\ w.entry = None
        BY <1>1, <1>4, <3>1, <3>4 DEF Enforced, Tables, Clean, Applying, Enrolling
      <4> QED
        BY <1>1, <1>2, <2>2, <3>1, <3>2, <3>4, <4>1 DEF SockOn
    <3> QED
      BY <3>3, <3>4 DEF Actors
  <2>3. \A d \in Clean' :
          d \in history'.unheard \/ proxy'[d] = None
          \/ (job'["sock"].at = "removing" /\ job'["sock"].container = d)
    BY <1>2, <1>3 DEF Enforced, Removed, Clean, SockOn
  <2> QED
    BY <2>1, <2>2, <2>3 DEF Removed, SockOn
<1>15. Watching'
  BY <1>2, <1>3 DEF Enforced, Watching, SockOn
<1> QED
  BY <1>7, <1>8, <1>9, <1>10, <1>11, <1>12, <1>13, <1>14, <1>15 DEF Enforced

\* The proxy keeps its filter of the container, or takes the one of the entry.
ProxyTold(a) ==
  /\ proxy' = proxy \/ proxy' = [proxy EXCEPT ![job[a].container] = job[a].entry]
  /\ UNCHANGED <<kernel, mirror, registered, configs, watched, history>>

\* What it has then is the container's own, and nothing of a container that is gone.
LEMMA ProxyToldKept ==
  ASSUME TypeOK, Shape, Enforced, NEW a \in Actors, job[a].at = "writing", ProxyTold(a)
  PROVE  /\ OwnEntries'
         /\ \A c \in Clean' : proxy'[c] = proxy[c]
<1>1. job[a].container \in Containers /\ job[a].container \notin Clean
  <2>1. CASE a = "sock"
    BY <2>1 DEF TypeOK, Enforced, Tables, Clean, Applying
  <2>2. CASE a = "watcher"
    BY <2>2 DEF TypeOK, Enforced, Removed, Applying
  <2> QED
    BY <2>1, <2>2 DEF Actors
<1>2. Own(job[a].container, job[a].entry)
  BY DEF Enforced, OwnJobs, Applying
<1>3. \A c \in Containers :
        /\ proxy'[c] = proxy[c] \/ (c = job[a].container /\ proxy'[c] = job[a].entry)
        /\ c \in Clean => proxy'[c] = proxy[c]
  BY <1>1 DEF ProxyTold, TypeOK
<1>4. OwnEntries'
  BY <1>2, <1>3 DEF ProxyTold, Enforced, OwnEntries, Own, Copy
<1>5. Clean' = Clean /\ Clean \subseteq Containers
  BY DEF ProxyTold, Clean, TypeOK
<1> QED
  BY <1>3, <1>4, <1>5

\* Both copies of the policy are there when all is written.
LEMMA WrittenHeld ==
  ASSUME TypeOK, Shape, Enforced, Written("sock"), ~Refused("sock"),
         job["sock"].entry.config \in Secured
  PROVE  Held(job["sock"].container)
<1>1. job["sock"].at = "writing" /\ Left("sock") = {}
  BY EmptyRange DEF Written, Left
<1>2. job["sock"].entry.config \in Secured \ Oversized
  BY DEF Refused
<1> QED
  BY <1>1, <1>2 DEF Enforced, PolicyComes, Held

\* The policy is accepted, or rolled back.
LEMMA PushStep ==
  ASSUME TypeOK, Shape, Enforced, NEW a \in Actors, Written(a), ProxyTold(a),
         (Accepted(a) /\ ~Refused(a)) \/ RollBack(a)
  PROVE  Enforced'
<1> DEFINE j == job[a]
<1>1. /\ j \in Job /\ j.at = "writing" /\ j.todo = <<>> /\ j.container \in Containers
      /\ "sock" \in Actors /\ "watcher" \in Actors
  BY DEF TypeOK, Written, Actors
<1>2. PICK next :
        /\ Become(a, next)
        /\ \/ /\ a = "sock" /\ ~Refused("sock") /\ next.at = "tracking" /\ next.old = <<>>
              /\ next.container = j.container /\ next.entry = j.entry /\ next.todo = <<>>
           \/ /\ a = "watcher" /\ next = Idle
           \/ /\ next.at = "restoring" /\ next.old = j.old
              /\ next.container = j.container /\ next.entry = j.entry
  <2>1. CASE Accepted(a) /\ ~Refused(a) /\ a = "sock"
    <3> DEFINE next == [j EXCEPT !.at = "tracking", !.old = <<>>, !.before = NoEntries]
    <3>1. Become(a, next)
      BY <2>1 DEF Accepted
    <3>2. /\ next.at = "tracking" /\ next.old = <<>> /\ next.container = j.container
          /\ next.entry = j.entry /\ next.todo = <<>>
      BY <1>1 DEF Job
    <3> HIDE DEF next
    <3> QED
      BY <2>1, <3>1, <3>2
  <2>2. CASE Accepted(a) /\ a = "watcher"
    BY <2>2 DEF Accepted
  <2>3. CASE RollBack(a)
    <3> DEFINE next == [j EXCEPT !.at = "restoring", !.todo = Restore(j.old)]
    <3>1. Become(a, next)
      BY <2>3 DEF RollBack
    <3>2. /\ next.at = "restoring" /\ next.old = j.old /\ next.container = j.container
          /\ next.entry = j.entry
      BY <1>1 DEF Job
    <3> HIDE DEF next
    <3> QED
      BY <3>1, <3>2
  <2> QED
    BY <2>1, <2>2, <2>3 DEF Actors
<1>3. job'[a] = next /\ (\A b \in Actors \ {a} : job'[b] = job[b])
  BY <1>2, Becomes
<1>4. UNCHANGED <<kernel, mirror, registered, configs, watched, history>>
  BY DEF ProxyTold
<1>5. OwnEntries' /\ \A c \in Clean' : proxy'[c] = proxy[c]
  BY <1>1, ProxyToldKept
<1>6. Idle.at = "idle" /\ Range(<<>>) = {}
  BY EmptyRange DEF Idle
<1>7. OwnJobs'
  <2>1. Own(j.container, j.entry) /\ \A e \in Found(a) : Own(j.container, e)
    BY <1>1 DEF Enforced, OwnJobs, Applying
  <2>2. next.at \in Applying \cup Enrolling =>
          /\ next.container = j.container /\ next.entry = j.entry
          /\ Range(next.old) \subseteq Found(a)
    BY <1>2, <1>6 DEF Found, Applying, Enrolling
  <2> QED
    BY <1>3, <1>4, <2>1, <2>2 DEF Enforced, OwnJobs, Own, Found
<1>8. Tables'
  BY <1>1, <1>2, <1>3, <1>4, <1>6 DEF Enforced, Tables, SockOn, Applying, Enrolling, Leaving
<1>9. RegisteredHeld'
  BY <1>4 DEF Enforced, RegisteredHeld, Held, Excused, Copy
<1>10. Blanks'
  BY <1>1, <1>2, <1>3, <1>4, <1>6 DEF Enforced, Blanks, BlankExcused, Excused, Applying
<1>11. PolicyComes'
  <2>1. CASE a = "sock"
    BY <1>2, <1>3, <1>6, <2>1 DEF PolicyComes
  <2>2. CASE a # "sock"
    <3>1. job'["sock"] = job["sock"]
      BY <1>1, <1>3, <2>2
    <3> QED
      BY <1>4, <3>1 DEF Enforced, PolicyComes, Excused, Copy, Left
  <2> QED
    BY <2>1, <2>2
<1>12. PolicyCame'
  <2>1. CASE a = "sock" /\ next.at = "tracking"
    <3>1. j.entry.config \in Secured => Held(j.container)
      BY <1>2, <2>1, WrittenHeld
    <3>2. next.container = j.container /\ next.entry = j.entry
      BY <1>2, <2>1
    <3> QED
      BY <1>3, <1>4, <2>1, <3>1, <3>2 DEF PolicyCame, Held, Excused, Copy
  <2>2. CASE a = "sock" /\ next.at # "tracking"
    BY <1>3, <2>2 DEF PolicyCame
  <2>3. CASE a # "sock"
    BY <1>1, <1>3, <1>4, <2>3 DEF Enforced, PolicyCame, Held, Excused, Copy
  <2> QED
    BY <2>1, <2>2, <2>3
<1>13. Removed'
  BY <1>1, <1>2, <1>3, <1>4, <1>5, <1>6
     DEF Enforced, Removed, Clean, Copy, SockOn, Left, Applying
<1>14. Watching'
  BY <1>1, <1>2, <1>3, <1>4, <1>6 DEF Enforced, Watching, SockOn
<1> QED
  BY <1>5, <1>7, <1>8, <1>9, <1>10, <1>11, <1>12, <1>13, <1>14 DEF Enforced

\* Applying a policy keeps what is enforced.
LEMMA ApplyStep ==
  ASSUME TypeOK, Shape, Enforced, NEW a \in Actors, ApplyNext(a)
  PROVE  Enforced'
<1>1. CASE Snapshot(a)
  BY <1>1, SnapshotStep
<1>2. CASE WriteMap(a)
  BY <1>2, WriteStep
<1>3. CASE UpdateFailed(a) \/ RolledBack(a)
  <2>1. Become(a, Idle) /\ UNCHANGED Scene /\ job[a].at \in {"writing", "restoring"}
    BY <1>3 DEF UpdateFailed, RolledBack, Written, Scene, ebpf, tracking, monitor
  <2> QED
    BY <2>1, IdleStep
<1>4. CASE NothingToPush(a)
  <2>1. Written(a) /\ ~Refused(a) /\ Accepted(a) /\ ProxyTold(a)
    BY <1>4 DEF NothingToPush, ProxyTold, ebpf, tracking, monitor
  <2> QED
    BY <2>1, PushStep
<1>5. CASE PushAccepted(a)
  <2>1. Written(a) /\ ~Refused(a) /\ Accepted(a) /\ ProxyTold(a)
    BY <1>5 DEF PushAccepted, Pushing, ProxyTold, ebpf, tracking, monitor
  <2> QED
    BY <2>1, PushStep
<1>6. CASE PushRejected(a)
  <2>1. Written(a) /\ RollBack(a) /\ ProxyTold(a)
    BY <1>6 DEF PushRejected, Pushing, ProxyTold, ebpf, tracking, monitor
  <2> QED
    BY <2>1, PushStep
<1>7. CASE PushFailed(a)
  <2>1. Written(a) /\ RollBack(a) /\ ProxyTold(a)
    BY <1>7 DEF PushFailed, Pushing, ProxyTold, ebpf, tracking, monitor
  <2> QED
    BY <2>1, PushStep
<1> QED
  BY <1>1, <1>2, <1>3, <1>4, <1>5, <1>6, <1>7 DEF ApplyNext

\* A message to register begins.
LEMMA RegisterStep ==
  ASSUME TypeOK, Shape, Enforced, NEW c \in Containers, NEW p \in Paths, Register(c, p)
  PROVE  Enforced'
<1> DEFINE e == [path |-> p, config |-> file[p]]
           next == [Idle EXCEPT !.at = "snapshot", !.container = c, !.before = kernel[c], !.entry = e]
<1>1. /\ job["sock"].at = "idle" /\ c \notin history.gone
      /\ UNCHANGED <<kernel, mirror, proxy, registered, configs, watched>>
      /\ "sock" \in Actors /\ "watcher" \in Actors
  BY DEF Register, ebpf, tracking, monitor, Actors
<1>2. /\ history'.asked = history.asked \cup {<<c, p>>} /\ history'.bare = history.bare
      /\ history'.gone = history.gone /\ history'.overlapped = history.overlapped
      /\ history'.unheard = history.unheard
  BY DEF Register, TypeOK
<1>3. /\ job'["watcher"] = job["watcher"]
      /\ \/ job' = job
         \/ /\ job'["sock"].at = "snapshot" /\ job'["sock"].container = c
            /\ job'["sock"].entry = e /\ job'["sock"].old = <<>>
  <2>1. CASE file[p] \in Secured \cup Filtered
    <3>1. Become("sock", next)
      BY <2>1 DEF Register
    <3>2. /\ next.at = "snapshot" /\ next.container = c /\ next.entry = e /\ next.old = <<>>
      BY DEF Idle
    <3> HIDE DEF next, e
    <3> QED
      BY <1>1, <3>1, <3>2, Becomes DEF Actors
  <2>2. CASE file[p] \notin Secured \cup Filtered
    BY <2>2 DEF Register
  <2> QED
    BY <2>1, <2>2
<1>4. e.path = p /\ Range(<<>>) = {}
  BY EmptyRange
<1> HIDE DEF e, next
<1>5. OwnEntries'
  BY <1>1, <1>2 DEF Enforced, OwnEntries, Own, Copy
<1>6. OwnJobs'
  <2>1. ASSUME NEW a \in Actors, job'[a] = job[a],
               job[a].at \in Applying \cup Enrolling
        PROVE  Own(job[a].container, job[a].entry)' /\ \A x \in Found(a)' : Own(job[a].container, x)'
    BY <1>2, <2>1 DEF Enforced, OwnJobs, Own, Found
  <2>2. job'["sock"] # job["sock"] =>
          /\ Own(job["sock"].container, job["sock"].entry)'
          /\ \A x \in Found("sock")' : Own(job["sock"].container, x)'
    BY <1>1, <1>2, <1>3, <1>4 DEF Own, Found
  <2> QED
    BY <1>1, <1>3, <2>1, <2>2 DEF OwnJobs, Actors
<1>7. Tables'
  BY <1>1, <1>2, <1>3 DEF Enforced, Tables, SockOn, Applying, Enrolling, Leaving
<1>8. (RegisteredHeld /\ Blanks)'
  BY <1>1, <1>2, <1>3
     DEF Enforced, RegisteredHeld, Blanks, BlankExcused, Held, Excused, Copy, Actors
<1>9. (PolicyComes /\ PolicyCame)'
  BY <1>1, <1>2, <1>3 DEF Enforced, PolicyComes, PolicyCame, Held, Excused, Copy, Left
<1>10. Removed'
  BY <1>1, <1>2, <1>3 DEF Enforced, Removed, Clean, Copy, SockOn, Left
<1>11. Watching'
  BY <1>1, <1>2, <1>3 DEF Enforced, Watching, SockOn
<1> QED
  BY <1>5, <1>6, <1>7, <1>8, <1>9, <1>10, <1>11 DEF Enforced

\* A message to unregister begins.
LEMMA UnregisterStep ==
  ASSUME TypeOK, Shape, Enforced, NEW c \in Containers, Unregister(c)
  PROVE  Enforced'
<1> DEFINE next == [Idle EXCEPT !.at = "removing", !.container = c, !.todo = Removal]
<1>1. /\ job["sock"].at = "idle"
      /\ UNCHANGED <<kernel, mirror, proxy, registered, configs, watched>>
      /\ "sock" \in Actors /\ "watcher" \in Actors
  BY DEF Unregister, ebpf, tracking, monitor, Actors
<1>2. /\ history'.asked = history.asked /\ history'.bare = history.bare
      /\ history'.gone = history.gone \cup {c} /\ history'.unheard = history.unheard
      /\ history.overlapped \subseteq history'.overlapped
      /\ job["watcher"].container = c => c \in history'.overlapped
  BY DEF Unregister, WatcherHas, TypeOK
<1>3. /\ job'["watcher"] = job["watcher"]
      /\ job'["sock"].at = "removing" /\ job'["sock"].container = c
      /\ job'["sock"].todo = Removal
  <2>1. Become("sock", next)
    BY DEF Unregister
  <2>2. next.at = "removing" /\ next.container = c /\ next.todo = Removal
    BY DEF Idle
  <2> HIDE DEF next
  <2> QED
    BY <1>1, <2>1, <2>2, Becomes DEF Actors
<1> HIDE DEF next
<1>4. OwnEntries'
  BY <1>1, <1>2 DEF Enforced, OwnEntries, Own, Copy
<1>5. OwnJobs'
  BY <1>1, <1>2, <1>3 DEF Enforced, OwnJobs, Own, Found, Actors, Applying, Enrolling
<1>6. Tables'
  BY <1>1, <1>2, <1>3 DEF Enforced, Tables, SockOn, Applying, Enrolling, Leaving
<1>7. (RegisteredHeld /\ Blanks)'
  BY <1>1, <1>2, <1>3
     DEF Enforced, RegisteredHeld, Blanks, BlankExcused, Held, Excused, Copy, Actors, Applying
<1>8. (PolicyComes /\ PolicyCame)'
  BY <1>3 DEF PolicyComes, PolicyCame
<1>9. Removed'
  <2>1. job'["watcher"].at \in Applying => job'["watcher"].container \notin Clean'
    BY <1>2, <1>3 DEF Enforced, Removed, Clean
  <2>2. \A d \in Clean' : d = c \/ d \in Clean
    BY <1>2 DEF Clean
  <2>3. \A k \in Copies, m \in Maps : \E w \in Left("sock")' : w.copy = k /\ w.map = m
    BY <1>3, RemovalWrites DEF Left
  <2> QED
    BY <1>1, <1>2, <1>3, <2>1, <2>2, <2>3 DEF Enforced, Removed, Copy, SockOn
<1>10. Watching'
  BY <1>1, <1>2, <1>3 DEF Enforced, Watching, SockOn
<1> QED
  BY <1>4, <1>5, <1>6, <1>7, <1>8, <1>9, <1>10 DEF Enforced

\* "sock" goes on, with the same container and entry.
LEMMA SockGoes ==
  ASSUME TypeOK, NEW to, Become("sock", [job["sock"] EXCEPT !.at = to])
  PROVE  /\ job'["watcher"] = job["watcher"] /\ job'["sock"].at = to
         /\ job'["sock"].container = job["sock"].container
         /\ job'["sock"].entry = job["sock"].entry /\ job'["sock"].old = job["sock"].old
         /\ job'["sock"].todo = job["sock"].todo
<1> DEFINE next == [job["sock"] EXCEPT !.at = to]
<1>1. "sock" \in Actors /\ "watcher" \in Actors \ {"sock"}
  BY DEF Actors
<1>2. job["sock"] \in Job
  BY <1>1 DEF TypeOK
<1>3. /\ next.at = to /\ next.container = job["sock"].container /\ next.entry = job["sock"].entry
      /\ next.old = job["sock"].old /\ next.todo = job["sock"].todo
  BY <1>2 DEF Job
<1>4. job'["sock"] = next /\ job'["watcher"] = job["watcher"]
  BY <1>1, Becomes
<1> HIDE DEF next
<1> QED
  BY <1>3, <1>4

\* The tables get the container.
LEMMA TrackStep ==
  ASSUME TypeOK, Shape, Enforced, Track
  PROVE  Enforced'
<1> DEFINE c == job["sock"].container
           e == job["sock"].entry
<1>1. /\ job["sock"].at = "tracking" /\ c \in Containers /\ e \in Entry
      /\ "sock" \in Actors /\ "watcher" \in Actors
  BY DEF Track, Go, TypeOK, Shape, ShapeOf, Enrolling, Actors
<1>2. /\ job'["watcher"] = job["watcher"] /\ job'["sock"].at = "watching"
      /\ job'["sock"].container = c /\ job'["sock"].entry = e /\ job'["sock"].old = job["sock"].old
  BY SockGoes DEF Track, Go
<1>3. /\ UNCHANGED <<kernel, mirror, proxy, watched>> /\ registered' = registered \cup {c}
      /\ configs' = [configs EXCEPT ![c] = e.path]
  BY DEF Track, ebpf, monitor
<1>4. /\ history'.asked = history.asked /\ history'.gone = history.gone
      /\ history'.unheard = history.unheard /\ history'.overlapped = history.overlapped
      /\ history.bare \subseteq history'.bare
      /\ e.config \notin Secured => c \in history'.bare
  <2>1. CASE e.config \in Secured
    BY <2>1 DEF Track
  <2>2. CASE e.config \notin Secured
    BY <2>2 DEF Track, TypeOK
  <2> QED
    BY <2>1, <2>2
<1>5. e.path \in Paths /\ e.path # None /\ e # None
  BY <1>1, NamesAssumption DEF Entry
<1>6. <<c, e.path>> \in history.asked /\ c \notin history.gone
  BY <1>1, <1>5 DEF Enforced, OwnJobs, Own, Tables, Enrolling
<1>7. \A d \in Containers : configs'[d] = IF d = c THEN e.path ELSE configs[d]
  BY <1>1, <1>3 DEF TypeOK
<1> HIDE DEF c, e
<1>8. OwnEntries'
  BY <1>3, <1>4, <1>6, <1>7 DEF Enforced, OwnEntries, Own, Copy
<1>9. OwnJobs'
  BY <1>1, <1>2, <1>4 DEF Enforced, OwnJobs, Own, Found, Actors, Applying, Enrolling, c, e
<1>10. Tables'
  BY <1>1, <1>2, <1>3, <1>4, <1>5, <1>6, <1>7 DEF Enforced, Tables, SockOn, Applying, Enrolling, Leaving
<1>11. RegisteredHeld'
  <2>1. \A d \in Containers : d = c => Held(d)'
    BY <1>1, <1>3, <1>4 DEF Enforced, PolicyCame, Held, Excused, Copy, c, e
  <2>2. \A d \in registered : Held(d)'
    BY <1>3, <1>4 DEF Enforced, RegisteredHeld, Held, Excused, Copy
  <2> QED
    BY <1>1, <1>3, <2>1, <2>2 DEF RegisteredHeld
<1>12. Blanks'
  BY <1>2, <1>3, <1>4 DEF Enforced, Blanks, BlankExcused, Excused, Tables, Actors, Applying
<1>13. (PolicyComes /\ PolicyCame)'
  BY <1>2 DEF PolicyComes, PolicyCame
<1>14. Removed'
  BY <1>1, <1>2, <1>3, <1>4 DEF Enforced, Removed, Clean, Copy, SockOn, Left
<1>15. Watching'
  BY <1>1, <1>2, <1>3, <1>4, <1>7 DEF Enforced, Watching, SockOn
<1> QED
  BY <1>8, <1>9, <1>10, <1>11, <1>12, <1>13, <1>14, <1>15 DEF Enforced

\* The file is watched.
LEMMA AddWatchStep ==
  ASSUME TypeOK, Shape, Enforced, AddWatch
  PROVE  Enforced'
<1> DEFINE c == job["sock"].container
           e == job["sock"].entry
           next == [job["sock"] EXCEPT !.at = "blocking", !.todo = InBoth("sock", e)]
<1>1. /\ job["sock"].at = "watching" /\ job["sock"] \in Job /\ e \in Entry
      /\ "sock" \in Actors /\ "watcher" \in Actors
  BY DEF AddWatch, TypeOK, Shape, ShapeOf, Enrolling, Actors
<1>2. /\ job'["watcher"] = job["watcher"] /\ job'["sock"].at = "blocking"
      /\ job'["sock"].container = c /\ job'["sock"].entry = e /\ job'["sock"].old = job["sock"].old
  <2>1. Become("sock", next)
    BY DEF AddWatch
  <2>2. next.at = "blocking" /\ next.container = c /\ next.entry = e /\ next.old = job["sock"].old
    BY <1>1 DEF Job
  <2> HIDE DEF next
  <2> QED
    BY <1>1, <2>1, <2>2, Becomes DEF Actors
<1>3. UNCHANGED <<kernel, mirror, proxy, registered, configs, history>>
  BY DEF AddWatch, ebpf, tracking
<1>4. /\ watched'[e.path] # Unwatched
      /\ \A p \in Paths : watched[p] # Unwatched => watched'[p] # Unwatched
  <2>1. e.path \in Paths /\ mtime[e.path] \in Nat
    BY <1>1 DEF Entry, TypeOK
  <2>2. mtime[e.path] # Unwatched /\ 0 # Unwatched
    BY <2>1 DEF Unwatched
  <2> QED
    BY <2>1, <2>2 DEF AddWatch, TypeOK
<1> HIDE DEF next
<1>5. OwnEntries'
  BY <1>3 DEF Enforced, OwnEntries, Own, Copy
<1>6. OwnJobs'
  BY <1>1, <1>2, <1>3 DEF Enforced, OwnJobs, Own, Found, Actors, Applying, Enrolling
<1>7. Tables'
  BY <1>1, <1>2, <1>3 DEF Enforced, Tables, SockOn, Applying, Enrolling, Leaving
<1>8. (RegisteredHeld /\ Blanks)'
  BY <1>1, <1>2, <1>3
     DEF Enforced, RegisteredHeld, Blanks, BlankExcused, Held, Excused, Copy, Actors, Applying
<1>9. (PolicyComes /\ PolicyCame)'
  BY <1>2 DEF PolicyComes, PolicyCame
<1>10. Removed'
  BY <1>1, <1>2, <1>3 DEF Enforced, Removed, Clean, Copy, SockOn, Left
<1>11. Watching'
  <2>1. configs[c] = e.path
    BY <1>1 DEF Enforced, Tables
  <2>2. \A d \in Containers : configs[d] # None => configs[d] \in Paths
    BY DEF TypeOK
  <2> QED
    BY <1>3, <1>4, <2>1, <2>2 DEF Enforced, Watching, SockOn
<1> QED
  BY <1>5, <1>6, <1>7, <1>8, <1>9, <1>10, <1>11 DEF Enforced

\* The proxy forgets the container, or is not reached.
LEMMA TellProxyStep ==
  ASSUME TypeOK, Shape, Enforced, TellProxy
  PROVE  Enforced'
<1> DEFINE c == job["sock"].container
<1>1. /\ job["sock"].at = "removing" /\ job["sock"].todo = <<>> /\ c \in Containers
      /\ "sock" \in Actors /\ "watcher" \in Actors
  BY DEF TellProxy, Go, TypeOK, Actors
<1>2. /\ job'["watcher"] = job["watcher"] /\ job'["sock"].at = "untracking"
      /\ job'["sock"].container = c
  BY SockGoes DEF TellProxy, Go
<1>3. UNCHANGED <<kernel, mirror, registered, configs, watched>>
  BY DEF TellProxy, ebpf, tracking, monitor
<1>4. /\ history'.asked = history.asked /\ history'.gone = history.gone
      /\ history'.overlapped = history.overlapped /\ history'.bare = history.bare
      /\ history.unheard \subseteq history'.unheard
      /\ c \in history'.unheard \/ proxy'[c] = None
      /\ \A d \in Containers : proxy'[d] = proxy[d] \/ proxy'[d] = None
  BY <1>1 DEF TellProxy, TypeOK
<1>5. Left("sock") = {}
  BY <1>1, EmptyRange DEF Left
<1>6. OwnEntries'
  BY <1>3, <1>4 DEF Enforced, OwnEntries, Own, Copy
<1>7. OwnJobs'
  BY <1>2, <1>4 DEF Enforced, OwnJobs, Own, Found, Actors, Applying, Enrolling
<1>8. Tables'
  BY <1>1, <1>2, <1>3, <1>4 DEF Enforced, Tables, SockOn, Applying, Enrolling, Leaving
<1>9. (RegisteredHeld /\ Blanks)'
  BY <1>2, <1>3, <1>4
     DEF Enforced, RegisteredHeld, Blanks, BlankExcused, Held, Excused, Copy, Actors, Applying
<1>10. (PolicyComes /\ PolicyCame)'
  BY <1>2 DEF PolicyComes, PolicyCame
<1>11. Removed'
  <2>1. Clean' = Clean /\ Clean \subseteq Containers
    BY <1>4 DEF Clean, TypeOK
  <2> QED
    BY <1>1, <1>2, <1>3, <1>4, <1>5, <2>1 DEF Enforced, Removed, Copy, SockOn
<1>12. Watching'
  BY <1>1, <1>2, <1>3, <1>4 DEF Enforced, Watching, SockOn
<1> QED
  BY <1>6, <1>7, <1>8, <1>9, <1>10, <1>11, <1>12 DEF Enforced

\* The path of the container goes, and its watch.
LEMMA UntrackStep ==
  ASSUME TypeOK, Shape, Enforced, Untrack
  PROVE  Enforced'
<1> DEFINE c == job["sock"].container
<1>1. /\ job["sock"].at = "untracking" /\ c \in Containers
      /\ "sock" \in Actors /\ "watcher" \in Actors
  BY DEF Untrack, TypeOK, Actors
<1>2. /\ job'["watcher"] = job["watcher"] /\ job'["sock"].at = "forgetting"
      /\ job'["sock"].container = c
  BY SockGoes DEF Untrack
<1>3. UNCHANGED <<kernel, mirror, proxy, registered, history>>
  BY DEF Untrack, ebpf
<1>4. \A d \in Containers : configs'[d] = IF d = c THEN None ELSE configs[d]
  BY <1>1 DEF Untrack, TypeOK
<1>5. \A p \in Paths : watched'[p] = watched[p] \/ p = configs[c]
  BY DEF Untrack, TypeOK
<1>6. OwnEntries'
  BY <1>3, <1>4 DEF Enforced, OwnEntries, Own, Copy
<1>7. OwnJobs'
  BY <1>2, <1>3 DEF Enforced, OwnJobs, Own, Found, Actors, Applying, Enrolling
<1>8. Tables'
  BY <1>1, <1>2, <1>3, <1>4 DEF Enforced, Tables, SockOn, Applying, Enrolling, Leaving
<1>9. (RegisteredHeld /\ Blanks)'
  BY <1>2, <1>3
     DEF Enforced, RegisteredHeld, Blanks, BlankExcused, Held, Excused, Copy, Actors, Applying
<1>10. (PolicyComes /\ PolicyCame)'
  BY <1>2 DEF PolicyComes, PolicyCame
<1>11. Removed'
  BY <1>1, <1>2, <1>3 DEF Enforced, Removed, Clean, Copy, SockOn, Left
<1>12. Watching'
  <2> SUFFICES ASSUME NEW d \in Containers, configs'[d] # None,
                      \A x \in Containers \ {d} : <<x, configs'[d]>> \notin history.asked
               PROVE  watched'[configs'[d]] # Unwatched
    BY <1>3 DEF Watching
  <2>1. d # c /\ configs'[d] = configs[d] /\ configs[d] \in Paths
    BY <1>4 DEF TypeOK
  <2>2. configs[c] # None => <<c, configs[c]>> \in history.asked
    BY <1>1 DEF Enforced, OwnEntries
  <2>3. configs[d] # configs[c]
    BY <1>1, <2>1, <2>2
  <2> QED
    BY <1>1, <1>5, <2>1, <2>3 DEF Enforced, Watching
<1> QED
  BY <1>6, <1>7, <1>8, <1>9, <1>10, <1>11, <1>12 DEF Enforced

\* The container is no longer registered.
LEMMA ForgetStep ==
  ASSUME TypeOK, Shape, Enforced, Forget
  PROVE  Enforced'
<1> DEFINE c == job["sock"].container
<1>1. /\ job["sock"].at = "forgetting" /\ c \in Containers
      /\ "sock" \in Actors /\ "watcher" \in Actors
  BY DEF Forget, TypeOK, Actors
<1>2. job'["watcher"] = job["watcher"] /\ job'["sock"].at = "idle"
  BY <1>1, Becomes DEF Forget, Idle, Actors
<1>3. UNCHANGED <<kernel, mirror, proxy, configs, watched, history>> /\ registered' = registered \ {c}
  BY DEF Forget, ebpf, monitor
<1>4. c \in history.gone
  BY <1>1 DEF Enforced, Tables, Leaving
<1>5. OwnEntries'
  BY <1>3 DEF Enforced, OwnEntries, Own, Copy
<1>6. OwnJobs'
  BY <1>2, <1>3 DEF Enforced, OwnJobs, Own, Found, Actors, Applying, Enrolling
<1>7. Tables'
  BY <1>1, <1>2, <1>3, <1>4 DEF Enforced, Tables, SockOn, Applying, Enrolling, Leaving
<1>8. (RegisteredHeld /\ Blanks)'
  BY <1>2, <1>3
     DEF Enforced, RegisteredHeld, Blanks, BlankExcused, Held, Excused, Copy, Actors, Applying
<1>9. (PolicyComes /\ PolicyCame)'
  BY <1>2 DEF PolicyComes, PolicyCame
<1>10. Removed'
  BY <1>1, <1>2, <1>3 DEF Enforced, Removed, Clean, Copy, SockOn, Left
<1>11. Watching'
  BY <1>1, <1>2, <1>3 DEF Enforced, Watching, SockOn
<1> QED
  BY <1>5, <1>6, <1>7, <1>8, <1>9, <1>10, <1>11 DEF Enforced

\* A path is taken from the queue.
LEMMA TakeChangeStep ==
  ASSUME TypeOK, Shape, Enforced, TakeChange
  PROVE  Enforced'
<1> DEFINE e == [path |-> Head(queue), config |-> file[Head(queue)]]
           next == [Idle EXCEPT !.at = "lookup", !.entry = e]
<1>1. /\ "sock" \in Actors /\ "watcher" \in Actors /\ job["watcher"].at = "idle"
      /\ UNCHANGED <<kernel, mirror, proxy, registered, configs, watched, history>>
  BY DEF TakeChange, Actors, ebpf, tracking
<1>2. CASE UNCHANGED job
  BY <1>1, <1>2, QuietStep DEF Scene
<1>3. CASE Become("watcher", next)
  <2>1. next.at = "lookup" /\ Range(<<>>) = {}
    BY EmptyRange DEF Idle
  <2> HIDE DEF next
  <2>2. job'["watcher"].at = "lookup" /\ job'["sock"] = job["sock"]
    BY <1>1, <1>3, <2>1, Becomes DEF Actors
  <2>3. OwnEntries'
    BY <1>1 DEF Enforced, OwnEntries, Own, Copy
  <2>4. OwnJobs'
    BY <1>1, <2>2 DEF Enforced, OwnJobs, Own, Found, Actors, Applying, Enrolling
  <2>5. Tables'
    BY <1>1, <2>2 DEF Enforced, Tables, SockOn, Applying
  <2>6. (RegisteredHeld /\ Blanks)'
    BY <1>1, <2>2
       DEF Enforced, RegisteredHeld, Blanks, BlankExcused, Held, Excused, Copy, Actors, Applying
  <2>7. (PolicyComes /\ PolicyCame)'
    BY <1>1, <2>2 DEF Enforced, PolicyComes, PolicyCame, Held, Excused, Copy, Left
  <2>8. Removed'
    BY <1>1, <2>2 DEF Enforced, Removed, Clean, Copy, SockOn, Left, Applying
  <2>9. Watching'
    BY <1>1, <2>2 DEF Enforced, Watching, SockOn
  <2> QED
    BY <2>3, <2>4, <2>5, <2>6, <2>7, <2>8, <2>9 DEF Enforced
<1> QED
  BY <1>2, <1>3 DEF TakeChange

\* One of the containers with this path is chosen; the lock of the tables is released.
LEMMA FindOwnerStep ==
  ASSUME TypeOK, Shape, Enforced, FindOwner
  PROVE  Enforced'
<1> DEFINE j == job["watcher"]
<1>1. /\ "sock" \in Actors /\ "watcher" \in Actors /\ j.at = "lookup" /\ j \in Job
      /\ j.old = <<>> /\ j.entry \in Entry
      /\ UNCHANGED <<kernel, mirror, proxy, registered, configs, watched>>
  BY DEF FindOwner, Actors, TypeOK, Shape, ShapeOf, ebpf, tracking, monitor
<1>2. ASSUME Become("watcher", Idle), UNCHANGED history
      PROVE  Enforced'
  BY <1>1, <1>2, IdleStep DEF Scene
<1>3. ASSUME NEW c \in Containers, configs[c] = j.entry.path,
             Become("watcher", [j EXCEPT !.at = "snapshot", !.container = c]),
             history' = [history EXCEPT !.overlapped = IF c \in history.gone THEN @ \cup {c} ELSE @]
      PROVE  Enforced'
  <2> DEFINE next == [j EXCEPT !.at = "snapshot", !.container = c]
  <2>1. /\ next.at = "snapshot" /\ next.container = c /\ next.entry = j.entry /\ next.old = <<>>
        /\ Become("watcher", next)
    BY <1>1, <1>3 DEF Job
  <2> HIDE DEF next
  <2>2. /\ job'["watcher"].at = "snapshot" /\ job'["watcher"].container = c
        /\ job'["watcher"].entry = j.entry /\ job'["watcher"].old = <<>>
        /\ job'["sock"] = job["sock"]
    BY <1>1, <2>1, Becomes DEF Actors
  <2>3. /\ history'.asked = history.asked /\ history'.bare = history.bare
        /\ history'.gone = history.gone /\ history'.unheard = history.unheard
        /\ history.overlapped \subseteq history'.overlapped
        /\ c \in history'.gone => c \in history'.overlapped
    BY <1>3 DEF TypeOK
  <2>4. configs[c] # None /\ c \in registered /\ <<c, configs[c]>> \in history.asked
    <3>1. j.entry.path \in Paths
      BY <1>1 DEF Entry
    <3>2. configs[c] # None
      BY <1>3, <3>1, NamesAssumption
    <3> QED
      BY <3>2 DEF Enforced, Tables, OwnEntries
  <2>5. OwnEntries'
    BY <1>1, <2>3 DEF Enforced, OwnEntries, Own, Copy
  <2>6. OwnJobs'
    <3>1. Own(job["watcher"].container, job["watcher"].entry)'
      BY <1>3, <2>2, <2>3, <2>4 DEF Own
    <3>2. Found("watcher")' = {}
      BY <2>2, EmptyRange DEF Found
    <3>3. job["sock"].at \in Applying \cup Enrolling =>
            /\ Own(job["sock"].container, job["sock"].entry)'
            /\ \A e \in Found("sock")' : Own(job["sock"].container, e)'
      BY <1>1, <2>2, <2>3 DEF Enforced, OwnJobs, Own, Found
    <3> QED
      BY <2>2, <3>1, <3>2, <3>3 DEF OwnJobs, Actors
  <2>7. Tables'
    BY <1>1, <2>2, <2>3, <2>4 DEF Enforced, Tables, SockOn, Applying
  <2>8. (RegisteredHeld /\ Blanks)'
    BY <1>1, <2>2, <2>3
       DEF Enforced, RegisteredHeld, Blanks, BlankExcused, Held, Excused, Copy, Actors, Applying
  <2>9. (PolicyComes /\ PolicyCame)'
    BY <1>1, <2>2, <2>3 DEF Enforced, PolicyComes, PolicyCame, Held, Excused, Copy, Left
  <2>10. Removed'
    BY <1>1, <2>2, <2>3 DEF Enforced, Removed, Clean, Copy, SockOn, Left, Applying
  <2>11. Watching'
    BY <1>1, <2>2, <2>3 DEF Enforced, Watching, SockOn
  <2> QED
    BY <2>5, <2>6, <2>7, <2>8, <2>9, <2>10, <2>11 DEF Enforced
<1> QED
  BY <1>2, <1>3 DEF FindOwner

\* Every step keeps what is enforced.
LEMMA EnforcedStep ==
  ASSUME TypeOK, Shape, Enforced, [Next]_vars
  PROVE  Enforced'
<1>1. CASE Message
  BY <1>1, RegisterStep, UnregisterStep DEF Message
<1>2. CASE Editing
  <2>1. UNCHANGED <<Scene, job>>
    BY <1>2 DEF Editing, Edit, Scene, ebpf, tracking, monitor
  <2> QED
    BY <2>1, QuietStep
<1>3. CASE SockNext
  <2>1. CASE ApplyNext("sock")
    BY <2>1, ApplyStep DEF Actors
  <2>2. CASE SockBlocked
    <3>1. /\ Become("sock", Idle) /\ UNCHANGED Scene /\ job["sock"].at = "blocking"
          /\ "sock" \in Actors
      BY <2>2 DEF SockBlocked, Scene, ebpf, tracking, monitor, Actors
    <3> QED
      BY <3>1, IdleStep
  <2> QED
    BY <1>3, <2>1, <2>2, TrackStep, AddWatchStep, TellProxyStep, UntrackStep, ForgetStep DEF SockNext
<1>4. CASE WatcherNext
  BY <1>4, ApplyStep, TakeChangeStep, FindOwnerStep DEF WatcherNext, Actors
<1>5. CASE PollNext
  <2>1. CASE PollRecord
    BY <2>1, RecordStep
  <2>2. CASE PollKeys \/ (\E p \in Paths : PollStat(p)) \/ PollCompare \/ PollSend
    <3>1. UNCHANGED <<Scene, job>>
      BY <2>2 DEF PollKeys, PollStat, PollCompare, PollSend, Scene, ebpf, tracking
    <3> QED
      BY <3>1, QuietStep
  <2> QED
    BY <1>5, <2>1, <2>2 DEF PollNext
<1>6. CASE UNCHANGED vars
  <2>1. UNCHANGED <<Scene, job>>
    BY <1>6 DEF vars, Scene
  <2> QED
    BY <2>1, QuietStep
<1> QED
  BY <1>1, <1>2, <1>3, <1>4, <1>5, <1>6 DEF Next

----------------------------------------------------------------------------
(* The theorems.                                                           *)

\* The invariant is one of the specification.
THEOREM InvHolds == Spec => []IInv
<1>1. Init => IInv
  BY InitInv
<1>2. IInv /\ [Next]_vars => IInv'
  BY TypeStep, EnforcedStep DEF IInv
<1> QED
  BY <1>1, <1>2, PTL DEF Spec

(***************************************************************************)
(* The variables of the controller, its threads and its maps keep their    *)
(* types: a job has the locals its place needs.                            *)
(***************************************************************************)
THEOREM TypeCorrect == Spec => []TypeOK
<1>1. IInv => TypeOK
  BY DEF IInv
<1> QED
  BY <1>1, InvHolds, PTL

(***************************************************************************)
(* Whatever apply_container_config, the callback of start_config_monitor   *)
(* and their rollbacks do to each other, the kernel maps and the proxy     *)
(* hold only what comes from a file the container was registered with.     *)
(***************************************************************************)
THEOREM PoliciesAreOwn == Spec => []OwnPolicyOnly
<1>1. IInv => OwnPolicyOnly
  <2> SUFFICES ASSUME IInv, NEW c \in Containers,
                      NEW e \in {kernel[c][m] : m \in Maps} \cup {proxy[c]}, e # None
               PROVE  <<c, e.path>> \in history.asked
    BY DEF OwnPolicyOnly
  <2>1. OwnEntries
    BY DEF IInv, Enforced
  <2>2. \A m \in Maps : kernel[c][m] = Copy("kernel", c, m)
    BY DEF Copy
  <2> QED
    BY <2>1, <2>2 DEF OwnEntries, Own, Copies
<1> QED
  BY <1>1, InvHolds, PTL

(***************************************************************************)
(* A registered container that always had a [security] section has a       *)
(* policy in the kernel at every moment: no order of registrations, hot    *)
(* reloads and rollbacks takes it away.                                    *)
(***************************************************************************)
THEOREM AlwaysProtected == Spec => []NeverUnprotected
<1>1. IInv => NeverUnprotected
  <2> SUFFICES ASSUME IInv, NEW c \in registered \ (history.bare \cup history.gone)
               PROVE  kernel[c]["policy"] # None
    BY DEF NeverUnprotected
  <2>1. Copy("kernel", c, "policy") # None
    BY DEF IInv, Enforced, RegisteredHeld, Held, Excused, Copies
  <2> QED
    BY <2>1 DEF Copy
<1> QED
  BY <1>1, InvHolds, PTL

(***************************************************************************)
(* unregister_container leaves nothing in the maps, in their mirrors and   *)
(* in the proxy, outside the race of finding 3 and an unreachable proxy.   *)
(***************************************************************************)
THEOREM NothingIsLeft == Spec => []GoneIsClean
<1>1. IInv => GoneIsClean
  <2> SUFFICES ASSUME IInv, NEW c \in history.gone \ history.overlapped, ~SockOn(c)
               PROVE  /\ kernel[c] = NoEntries /\ mirror[c] = NoEntries
                      /\ c \notin history.unheard => proxy[c] = None
    BY DEF GoneIsClean
  <2>1. TypeOK /\ Removed /\ c \in Clean /\ c \in Containers
    BY DEF IInv, Enforced, Clean, TypeOK
  <2>2. \A m \in Maps : Copy("kernel", c, m) = None /\ Copy("mirror", c, m) = None
    BY <2>1 DEF Removed, Copies
  <2>3. \A m \in Maps : kernel[c][m] = None /\ mirror[c][m] = None
    BY <2>2 DEF Copy
  <2>4. kernel[c] \in [Maps -> Slot] /\ mirror[c] \in [Maps -> Slot]
    BY <2>1 DEF TypeOK
  <2> QED
    BY <2>1, <2>3, <2>4 DEF NoEntries, Removed
<1> QED
  BY <1>1, InvHolds, PTL

(***************************************************************************)
(* Between two messages registered_containers and container_configs name   *)
(* the same containers, and ConfigMonitor watches the file of each that    *)
(* never shared it.                                                        *)
(***************************************************************************)
THEOREM TablesAgree == Spec => []TrackedIsWatched
<1>1. IInv => TrackedIsWatched
  <2> SUFFICES ASSUME IInv, job["sock"].at = "idle"
               PROVE  /\ registered = {c \in Containers : configs[c] # None}
                      /\ \A c \in registered :
                           (\A d \in Containers \ {c} : <<d, configs[c]>> \notin history.asked)
                             => watched[configs[c]] # Unwatched
    BY DEF TrackedIsWatched
  <2>1. registered \subseteq Containers /\ \A c \in Containers : configs[c] # None <=> c \in registered
    BY DEF IInv, TypeOK, Enforced, Tables
  <2> QED
    BY <2>1 DEF IInv, Enforced, Watching
<1> QED
  BY <1>1, InvHolds, PTL

\* Both together: what handle_lifecycle_message and the watcher share stays of its type and agrees.
THEOREM TablesSound == Spec => []TablesAreSound
<1>1. TypeOK /\ TrackedIsWatched => TablesAreSound
  BY DEF TablesAreSound
<1> QED
  BY <1>1, TypeCorrect, TablesAgree, PTL

(***************************************************************************)
(* KernelPolicy.  Where the words of a buffer lie, and what comparing them *)
(* one by one says of the texts in the buffers.                            *)
(***************************************************************************)
Begin(i) == (i - 1) * WordLen

WordsLie ==
  /\ \A i \in WordsOfPath : Begin(i) \in Nat /\ Begin(i) + WordLen <= PathLen
  /\ \A i, j \in WordsOfPath : i < j => Begin(i) + WordLen <= Begin(j)
  /\ \A x \in 1..PathLen : \E i \in WordsOfPath : Begin(i) < x /\ x <= Begin(i) + WordLen

LEMMA WordsCover == WordsLie
<1> DEFINE N == PathLen \div WordLen
<1>0. WordLen \in Nat \ {0} /\ PathLen \in Nat \ {0} /\ PathLen % WordLen = 0
  BY KernelAssumption
<1>1. N \in Nat /\ N * WordLen = PathLen
  BY <1>0
<1> HIDE DEF N
<1>2. ASSUME NEW i \in 1..N PROVE (i - 1) * WordLen \in Nat /\ (i - 1) * WordLen + WordLen <= PathLen
  <2>1. (i - 1) * WordLen \in Nat
    BY <1>0, <1>1
  <2>2. (N - i) * WordLen >= 0
    BY <1>0, <1>1
  <2>3. (i - 1) * WordLen + WordLen + (N - i) * WordLen = N * WordLen
    BY <1>0, <1>1
  <2> QED
    BY <2>1, <2>2, <2>3, <1>0, <1>1
<1>3. ASSUME NEW i \in 1..N, NEW j \in 1..N, i < j PROVE (i - 1) * WordLen + WordLen <= (j - 1) * WordLen
  <2>1. (j - 1 - i) * WordLen >= 0
    BY <1>0, <1>1, <1>3
  <2>2. (i - 1) * WordLen + WordLen + (j - 1 - i) * WordLen = (j - 1) * WordLen
    BY <1>0, <1>1
  <2> QED
    BY <2>1, <2>2, <1>0, <1>1
<1>4. ASSUME NEW x \in 1..PathLen PROVE \E i \in 1..N : (i - 1) * WordLen < x /\ x <= (i - 1) * WordLen + WordLen
  <2>1. PICK q : q = (x - 1) \div WordLen
    OBVIOUS
  <2>2. q \in Nat /\ q * WordLen <= x - 1 /\ x - 1 < q * WordLen + WordLen
    BY <1>0, <2>1
  <2>3. q < N
    <3>1. SUFFICES ASSUME ~ (q < N) PROVE FALSE
      OBVIOUS
    <3>2. (q - N) * WordLen >= 0
      BY <3>1, <2>2, <1>0, <1>1
    <3>3. q * WordLen = N * WordLen + (q - N) * WordLen
      BY <2>2, <1>0, <1>1
    <3> QED
      BY <3>2, <3>3, <2>2, <1>0, <1>1
  <2>4. q + 1 \in 1..N /\ (q + 1) - 1 = q
    BY <2>2, <2>3, <1>1
  <2> QED
    BY <2>2, <2>4, <1>0
<1> QED
  BY <1>2, <1>3, <1>4 DEF WordsLie, WordsOfPath, Begin, N

Bytes == Symbols \cup {"0"}

\* A text in a buffer.
Buffers(b, t) ==
  /\ b \in Seq(Bytes) /\ Len(b) = PathLen /\ Len(t) \in Nat /\ Len(t) <= PathLen
  /\ \A x \in 1..Len(t) : b[x] = t[x] /\ t[x] # "0"
  /\ \A x \in 1..PathLen : x > Len(t) => b[x] = "0"

LEMMA PaddedHolds ==
  ASSUME NEW t \in PathText, Len(t) <= PathLen
  PROVE  Buffers(Padded(t), t)
<1>0. PathLen \in Nat /\ t \in Seq(Bytes) /\ Len(t) \in Nat
  <2>1. PathLen \in Nat
    BY KernelAssumption
  <2>2. t \in Seq(Symbols) /\ Symbols \subseteq Bytes
    BY DEF Bytes, PathText
  <2>3. t \in Seq(Bytes)
    BY <2>2, SeqMonotonic
  <2>4. Len(t) \in Nat
    BY <2>3, LenProperties
  <2> QED
    BY <2>1, <2>3, <2>4
<1> DEFINE m == PathLen - Len(t)
           z == [k \in 1..m |-> "0"]
<1>1. m \in Nat /\ z \in Seq(Bytes) /\ Len(z) = m
  <2>1. m \in Nat
    BY <1>0
  <2> HIDE DEF m
  <2>2. "0" \in Bytes
    BY DEF Bytes
  <2>3. z \in [1..m -> Bytes]
    BY <2>2
  <2> QED
    BY <2>1, <2>3
<1>2. PICK b : b = t \o z
  OBVIOUS
<1>3. /\ b \in Seq(Bytes) /\ Len(b) = Len(t) + Len(z)
      /\ \A x \in 1..(Len(t) + Len(z)) : b[x] = IF x <= Len(t) THEN t[x] ELSE z[x - Len(t)]
  BY <1>0, <1>1, <1>2, ConcatProperties
<1>4. Len(b) = PathLen
  BY <1>0, <1>1, <1>3
<1>5. \A x \in 1..Len(t) : b[x] = t[x] /\ t[x] # "0"
  <2> TAKE x \in 1..Len(t)
  <2>1. x \in 1..(Len(t) + Len(z)) /\ x <= Len(t)
    BY <1>0, <1>1
  <2>2. t[x] \in Symbols
    BY DEF PathText
  <2> QED
    BY <2>1, <2>2, <1>3, KernelAssumption
<1>6. \A x \in 1..PathLen : x > Len(t) => b[x] = "0"
  <2> SUFFICES ASSUME NEW x \in 1..PathLen, x > Len(t) PROVE b[x] = "0"
    OBVIOUS
  <2>1. x \in 1..(Len(t) + Len(z)) /\ ~ (x <= Len(t)) /\ x - Len(t) \in 1..m
    BY <1>0, <1>1
  <2> QED
    BY <2>1, <1>1, <1>3
<1>7. Padded(t) = b
  BY <1>2 DEF Padded
<1> QED
  BY <1>0, <1>3, <1>4, <1>5, <1>6, <1>7 DEF Buffers

\* A buffer that begins with a text and its terminator, and one with zeros in the word behind it.
Carries(b, t) ==
  /\ b \in Seq(Bytes) /\ Len(b) = PathLen /\ Len(t) \in Nat /\ Len(t) < PathLen
  /\ \A x \in 1..Len(t) : b[x] = t[x] /\ t[x] # "0"
  /\ b[Len(t) + 1] = "0"
ZerosFollow(b, t) == \A x \in 1..PathLen : x > Len(t) /\ x <= Len(t) + WordLen => b[x] = "0"

LEMMA PaddedCarries ==
  ASSUME NEW t, FitsWithZero(t)
  PROVE  Carries(Padded(t), t) /\ ZerosFollow(Padded(t), t)
<1>1. Len(t) \in Nat /\ PathLen \in Nat /\ Len(t) < PathLen /\ t \in PathText
  BY LenProperties, KernelAssumption DEF FitsWithZero, PathText
<1>2. PICK b : b = Padded(t)
  OBVIOUS
<1>3. Buffers(b, t)
  BY <1>1, <1>2, PaddedHolds
<1>4. Len(t) + 1 \in 1..PathLen /\ Len(t) + 1 > Len(t)
  BY <1>1
<1> QED
  BY <1>1, <1>2, <1>3, <1>4 DEF Buffers, Carries, ZerosFollow

LEMMA ResolvedCarries ==
  ASSUME NEW t, FitsWithZero(t)
  PROVE  Carries(Resolved(t), t) /\ (Short(t) => ZerosFollow(Resolved(t), t))
<1>1. PICK m : m = Len(t)
  OBVIOUS
<1>2. m \in Nat /\ PathLen \in Nat /\ WordLen \in Nat /\ m < PathLen /\ t \in Seq(Symbols)
  BY <1>1, LenProperties, KernelAssumption DEF FitsWithZero, PathText
<1>3. PICK z : z = Append(t, "0")
  OBVIOUS
<1>4. \A i \in 1..(m + 1) : z[i] \in Bytes
  <2>1. t \in Seq(Bytes) /\ "0" \in Bytes
    <3>1. Symbols \subseteq Bytes /\ "0" \in Bytes
      BY DEF Bytes
    <3> QED
      BY <3>1, <1>2, SeqMonotonic
  <2>2. z \in Seq(Bytes) /\ Len(z) = m + 1
    BY <2>1, <1>1, <1>3, AppendProperties
  <2> QED
    BY <2>2, ElementOfSeq
<1>5. PICK b : b = Resolved(t)
  OBVIOUS
<1>6. b = [k \in 1..PathLen |-> IF k <= m THEN t[k]
                               ELSE IF k > m + 1 /\ k > PathLen - (m + 1) THEN z[k - (PathLen - (m + 1))]
                               ELSE "0"]
  BY <1>1, <1>3, <1>5 DEF Resolved
<1>7. \A i \in 1..m : t[i] \in Symbols /\ t[i] # "0" /\ t[i] \in Bytes
  BY <1>1, <1>2, ElementOfSeq, KernelAssumption DEF Bytes
<1>8. ASSUME NEW k \in 1..PathLen PROVE b[k] \in Bytes
  <2>1. CASE k <= m
    <3>1. k \in 1..m /\ b[k] = t[k]
      BY <2>1, <1>2, <1>6
    <3> QED
      BY <3>1, <1>7
  <2>2. CASE k > m + 1 /\ k > PathLen - (m + 1)
    <3>1. PICK i : i = k - (PathLen - (m + 1))
      OBVIOUS
    <3>2. i \in 1..(m + 1) /\ ~(k <= m)
      BY <2>2, <3>1, <1>2
    <3>3. b[k] = z[i]
      BY <2>2, <3>1, <3>2, <1>6
    <3> QED
      BY <3>2, <3>3, <1>4
  <2>3. CASE ~(k <= m) /\ ~(k > m + 1 /\ k > PathLen - (m + 1))
    <3>1. b[k] = "0"
      BY <2>3, <1>6
    <3> QED
      BY <3>1 DEF Bytes
  <2> QED
    BY <2>1, <2>2, <2>3
<1>9. b \in Seq(Bytes) /\ Len(b) = PathLen
  <2>1. b \in [1..PathLen -> Bytes]
    <3>1. b = [k \in 1..PathLen |-> b[k]]
      BY <1>6
    <3> QED
      BY <3>1, <1>8
  <2> QED
    BY <2>1, <1>2
<1>10. \A x \in 1..m : b[x] = t[x] /\ t[x] # "0"
  <2> TAKE x \in 1..m
  <2>1. x \in 1..PathLen /\ x <= m
    BY <1>2
  <2>2. b[x] = t[x]
    BY <2>1, <1>6
  <2> QED
    BY <2>2, <1>7
<1>11. b[m + 1] = "0"
  <2>1. m + 1 \in 1..PathLen /\ ~(m + 1 <= m) /\ ~(m + 1 > m + 1)
    BY <1>2
  <2> QED
    BY <2>1, <1>6
<1>12. ASSUME Short(t) PROVE ZerosFollow(b, t)
  <2>1. 2 * m + WordLen < PathLen
    BY <1>1, <1>12 DEF Short
  <2>2. SUFFICES ASSUME NEW x \in 1..PathLen, x > m, x <= m + WordLen PROVE b[x] = "0"
    BY <1>1 DEF ZerosFollow
  <2>3. ~(x <= m) /\ ~(x > PathLen - (m + 1))
    BY <2>1, <2>2, <1>2
  <2> QED
    BY <2>3, <1>6
<1>13. Carries(b, t)
  BY <1>1, <1>2, <1>9, <1>10, <1>11 DEF Carries
<1> QED
  BY <1>5, <1>12, <1>13

LEMMA WordAt ==
  ASSUME NEW b \in Seq(Bytes), Len(b) = PathLen, NEW i \in WordsOfPath
  PROVE  /\ WordOf(b, i) \in Seq(Bytes) /\ Len(WordOf(b, i)) = WordLen
         /\ \A k \in 1..WordLen : WordOf(b, i)[k] = b[Begin(i) + k] /\ Begin(i) + k \in 1..PathLen
<1>0. WordLen \in Nat \ {0} /\ PathLen \in Nat \ {0} /\ i \in Int
  BY KernelAssumption DEF WordsOfPath
<1>1. PICK s : s = Begin(i)
  OBVIOUS
<1>2. s \in Nat /\ s + WordLen <= PathLen
  BY <1>1, WordsCover DEF WordsLie
<1>3. (i - 1) * WordLen + 1 = s + 1 /\ i * WordLen = s + WordLen
  BY <1>0, <1>1 DEF Begin
<1>4. PICK w : w = SubSeq(b, s + 1, s + WordLen)
  OBVIOUS
<1>5. s + 1 \in Int /\ s + WordLen \in Int /\ \A x \in (s + 1)..(s + WordLen) : x \in 1..Len(b)
  BY <1>0, <1>2
<1>6. \A x \in (s + 1)..(s + WordLen) : b[x] \in Bytes
  BY <1>5
<1>7. w \in Seq(Bytes) /\ Len(w) = WordLen /\ \A k \in 1..WordLen : w[k] = b[s + k]
  <2>1. PICK u : u = s + 1
    OBVIOUS
  <2>2. PICK v : v = s + WordLen
    OBVIOUS
  <2>3. u \in Int /\ v \in Int /\ \A x \in u..v : b[x] \in Bytes
    BY <1>5, <1>6, <2>1, <2>2
  <2>4. /\ SubSeq(b, u, v) \in Seq(Bytes) /\ Len(SubSeq(b, u, v)) = (IF u <= v THEN v - u + 1 ELSE 0)
        /\ \A k \in 1..(v - u + 1) : SubSeq(b, u, v)[k] = b[u + k - 1]
    BY <2>3, SubSeqProperties
  <2>5. w = SubSeq(b, u, v)
    BY <1>4, <2>1, <2>2
  <2>6. v - u + 1 = WordLen /\ u <= v /\ \A k \in 1..WordLen : u + k - 1 = s + k
    BY <1>0, <1>2, <2>1, <2>2
  <2>7. Len(w) = WordLen /\ w \in Seq(Bytes)
    BY <2>4, <2>5, <2>6
  <2>8. \A k \in 1..WordLen : w[k] = b[u + k - 1]
    BY <2>4, <2>5, <2>6
  <2> QED
    BY <2>6, <2>7, <2>8
<1>9. \A k \in 1..WordLen : s + k \in 1..PathLen
  BY <1>0, <1>2
<1>10. WordOf(b, i) = w
  BY <1>3, <1>4 DEF WordOf
<1> QED
  BY <1>1, <1>7, <1>9, <1>10

LEMMA SameWord ==
  ASSUME NEW a \in Seq(Bytes), NEW b \in Seq(Bytes), Len(a) = PathLen, Len(b) = PathLen, NEW i \in WordsOfPath
  PROVE  /\ WordOf(a, i) = WordOf(b, i) <=> \A k \in 1..WordLen : a[Begin(i) + k] = b[Begin(i) + k]
         /\ HasZero(WordOf(a, i)) <=> \E k \in 1..WordLen : a[Begin(i) + k] = "0"
<1>1. /\ WordOf(a, i) \in Seq(Bytes) /\ Len(WordOf(a, i)) = WordLen
      /\ \A k \in 1..WordLen : WordOf(a, i)[k] = a[Begin(i) + k]
  BY WordAt
<1>2. /\ WordOf(b, i) \in Seq(Bytes) /\ Len(WordOf(b, i)) = WordLen
      /\ \A k \in 1..WordLen : WordOf(b, i)[k] = b[Begin(i) + k]
  BY WordAt
<1>3. ASSUME \A k \in 1..WordLen : a[Begin(i) + k] = b[Begin(i) + k]
      PROVE  WordOf(a, i) = WordOf(b, i)
  <2>1. \A k \in 1..Len(WordOf(a, i)) : WordOf(a, i)[k] = WordOf(b, i)[k]
    BY <1>1, <1>2, <1>3
  <2> QED
    BY <2>1, <1>1, <1>2, SeqEqual
<1>4. WordOf(a, i) = WordOf(b, i) => \A k \in 1..WordLen : a[Begin(i) + k] = b[Begin(i) + k]
  BY <1>1, <1>2
<1>5. HasZero(WordOf(a, i)) <=> \E k \in 1..WordLen : a[Begin(i) + k] = "0"
  BY <1>1 DEF HasZero, Contains
<1> QED
  BY <1>3, <1>4, <1>5

\* Words that are the same, or hold no zero, one after another.
LEMMA WordsBefore ==
  ASSUME NEW a \in Seq(Bytes), NEW b \in Seq(Bytes), Len(a) = PathLen, Len(b) = PathLen, NEW i \in WordsOfPath
  PROVE  /\ (\A j \in 1..(i - 1) : WordOf(a, j) = WordOf(b, j)) <=> \A x \in 1..Begin(i) : a[x] = b[x]
         /\ (\A j \in 1..(i - 1) : ~HasZero(WordOf(b, j))) <=> \A x \in 1..Begin(i) : b[x] # "0"
<1>0. \A j \in 1..(i - 1) : j \in WordsOfPath /\ j < i
  BY KernelAssumption DEF WordsOfPath
<1>1. ASSUME NEW j \in 1..(i - 1), NEW k \in 1..WordLen PROVE Begin(j) + k \in 1..Begin(i)
  <2>0. j \in WordsOfPath /\ i \in WordsOfPath /\ j < i
    BY <1>0
  <2>1. PICK c : c = Begin(j)
    OBVIOUS
  <2>2. PICK d : d = Begin(i)
    OBVIOUS
  <2>3. c \in Nat /\ d \in Nat /\ c + WordLen <= d
    BY <2>0, <2>1, <2>2, WordsCover DEF WordsLie
  <2>4. WordLen \in Nat
    BY KernelAssumption
  <2>5. c + k \in 1..d
    BY <2>3, <2>4
  <2> QED
    BY <2>1, <2>2, <2>5
<1>2. ASSUME NEW x \in 1..Begin(i) PROVE \E j \in 1..(i - 1), k \in 1..WordLen : x = Begin(j) + k
  <2>1. Begin(i) \in Nat /\ Begin(i) + WordLen <= PathLen /\ WordLen \in Nat /\ PathLen \in Nat
    BY WordsCover, KernelAssumption DEF WordsLie
  <2>2. PICK d : d = Begin(i)
    OBVIOUS
  <2>3. x \in 1..PathLen /\ x <= d /\ d \in Nat
    BY <2>1, <2>2
  <2>4. PICK j \in WordsOfPath : Begin(j) < x /\ x <= Begin(j) + WordLen
    BY <2>3, WordsCover DEF WordsLie
  <2>5. PICK c : c = Begin(j)
    OBVIOUS
  <2>6. c \in Nat
    BY <2>5, WordsCover DEF WordsLie
  <2>7. x - c \in 1..WordLen /\ x = c + (x - c)
    BY <2>1, <2>3, <2>4, <2>5, <2>6
  <2>8. j < i
    <3>0. i \in Int /\ j \in Int
      BY DEF WordsOfPath
    <3>1. CASE j = i
      BY <3>1, <2>2, <2>3, <2>4, <2>5, <2>6
    <3>2. CASE i < j
      <4>1. d + WordLen <= c
        BY <3>2, <2>2, <2>5, WordsCover DEF WordsLie
      <4>2. FALSE
        BY <4>1, <2>1, <2>3, <2>4, <2>5, <2>6
      <4> QED
        BY <4>2
    <3> QED
      BY <3>0, <3>1, <3>2
  <2>9. j \in 1..(i - 1)
    BY <2>8 DEF WordsOfPath
  <2> QED
    BY <2>5, <2>7, <2>9
<1>3. \A j \in 1..(i - 1) : WordOf(a, j) = WordOf(b, j) <=> \A k \in 1..WordLen : a[Begin(j) + k] = b[Begin(j) + k]
  BY <1>0, SameWord
<1>4. \A j \in 1..(i - 1) : HasZero(WordOf(b, j)) <=> \E k \in 1..WordLen : b[Begin(j) + k] = "0"
  BY <1>0, SameWord
<1>5. ASSUME \A j \in 1..(i - 1) : WordOf(a, j) = WordOf(b, j), NEW x \in 1..Begin(i) PROVE a[x] = b[x]
  <2>1. PICK j \in 1..(i - 1), k \in 1..WordLen : x = Begin(j) + k
    BY <1>2
  <2> QED
    BY <2>1, <1>3, <1>5
<1>6. ASSUME \A x \in 1..Begin(i) : a[x] = b[x], NEW j \in 1..(i - 1) PROVE WordOf(a, j) = WordOf(b, j)
  BY <1>1, <1>3, <1>6
<1>7. ASSUME \A j \in 1..(i - 1) : ~HasZero(WordOf(b, j)), NEW x \in 1..Begin(i) PROVE b[x] # "0"
  <2>1. PICK j \in 1..(i - 1), k \in 1..WordLen : x = Begin(j) + k
    BY <1>2
  <2> QED
    BY <2>1, <1>4, <1>7
<1>8. ASSUME \A x \in 1..Begin(i) : b[x] # "0", NEW j \in 1..(i - 1) PROVE ~HasZero(WordOf(b, j))
  BY <1>1, <1>4, <1>8
<1> QED
  BY <1>5, <1>6, <1>7, <1>8

\* The word that holds the end of a text, and what lies in it.
LEMMA WordOfEnd ==
  ASSUME NEW n \in Nat, n < PathLen
  PROVE  \E i \in WordsOfPath : \E k \in 1..WordLen : n + 1 = Begin(i) + k /\ Begin(i) \in Nat /\ Begin(i) <= n
<1>1. PathLen \in Nat /\ WordLen \in Nat
  BY KernelAssumption
<1>2. n + 1 \in 1..PathLen
  BY <1>1
<1>3. PICK i \in WordsOfPath : Begin(i) < n + 1 /\ n + 1 <= Begin(i) + WordLen
  BY <1>2, WordsCover DEF WordsLie
<1>4. PICK c : c = Begin(i)
  OBVIOUS
<1>5. c \in Nat
  BY <1>4, WordsCover DEF WordsLie
<1>6. PICK k : k = n + 1 - c
  OBVIOUS
<1>7. k \in 1..WordLen /\ n + 1 = c + k /\ c <= n
  BY <1>1, <1>3, <1>4, <1>5, <1>6
<1> QED
  BY <1>4, <1>5, <1>7

LEMMA ExactIs ==
  ASSUME NEW t, FitsWithZero(t), NEW a, Carries(a, t), NEW u \in PathText, Len(u) <= PathLen
  PROVE  /\ ExactMatch(a, Padded(u)) => t = u
         /\ ZerosFollow(a, t) /\ t = u => ExactMatch(a, Padded(u))
<1>2. PICK b : b = Padded(u)
  OBVIOUS
<1>3. Buffers(b, u) /\ PathLen \in Nat
  BY <1>2, PaddedHolds, KernelAssumption
<1>4. PICK m : m = Len(t)
  OBVIOUS
<1>5. PICK n : n = Len(u)
  OBVIOUS
<1>6. /\ m \in Nat /\ m < PathLen /\ n \in Nat /\ n <= PathLen
      /\ a \in Seq(Bytes) /\ Len(a) = PathLen /\ b \in Seq(Bytes) /\ Len(b) = PathLen
  BY <1>3, <1>4, <1>5 DEF Buffers, Carries
<1>7. /\ \A x \in 1..m : a[x] = t[x] /\ t[x] # "0"
      /\ \A x \in 1..n : b[x] = u[x] /\ u[x] # "0"
  BY <1>3, <1>4, <1>5 DEF Buffers, Carries
<1>8. /\ a[m + 1] = "0"
      /\ \A x \in 1..PathLen : x > n => b[x] = "0"
  BY <1>3, <1>4, <1>5 DEF Buffers, Carries
<1>9. ASSUME ZerosFollow(a, t), t = u PROVE ExactMatch(a, b)
  <2>0. n = m
    BY <1>4, <1>5, <1>9
  <2>1. PICK i \in WordsOfPath : \E k \in 1..WordLen : m + 1 = Begin(i) + k /\ Begin(i) \in Nat /\ Begin(i) <= m
    BY <1>6, WordOfEnd
  <2>2. PICK k \in 1..WordLen : m + 1 = Begin(i) + k
    BY <2>1
  <2>3. PICK c : c = Begin(i)
    OBVIOUS
  <2>4. c \in Nat /\ c <= m /\ c + WordLen <= PathLen /\ WordLen \in Nat
    BY <2>1, <2>3, WordsCover, KernelAssumption DEF WordsLie
  <2>5. ASSUME NEW x \in 1..(c + WordLen) PROVE a[x] = b[x]
    <3>1. CASE x <= m
      <4>1. x \in 1..m
        BY <3>1, <2>4, <1>6
      <4> QED
        BY <4>1, <2>0, <1>7, <1>9
    <3>2. CASE x > m
      <4>1. x \in 1..PathLen /\ x <= m + WordLen
        BY <2>4, <1>3, <1>6
      <4>2. a[x] = "0"
        BY <4>1, <3>2, <1>4, <1>9 DEF ZerosFollow
      <4>3. b[x] = "0"
        BY <4>1, <3>2, <2>0, <1>8
      <4> QED
        BY <4>2, <4>3
    <3> QED
      BY <3>1, <3>2, <2>4, <1>6
  <2>6. \A x \in 1..c : a[x] = b[x]
    <3>1. \A x \in 1..c : x \in 1..(c + WordLen)
      BY <2>4
    <3> QED
      BY <3>1, <2>5
  <2>7. \A j \in 1..(i - 1) : WordOf(a, j) = WordOf(b, j)
    BY <2>3, <2>6, <1>6, WordsBefore
  <2>8. \A l \in 1..WordLen : a[Begin(i) + l] = b[Begin(i) + l]
    <3> TAKE l \in 1..WordLen
    <3>1. c + l \in 1..(c + WordLen)
      BY <2>4
    <3> QED
      BY <3>1, <2>3, <2>5
  <2>9. WordOf(a, i) = WordOf(b, i)
    BY <2>8, <1>6, SameWord
  <2>10. HasZero(WordOf(a, i))
    BY <2>2, <1>8, <1>6, SameWord
  <2>11. \A j \in 1..i : j \in 1..(i - 1) \/ j = i
    BY DEF WordsOfPath
  <2> QED
    BY <2>7, <2>9, <2>10, <2>11 DEF ExactMatch
<1>10. ASSUME ExactMatch(a, b) PROVE t = u
  <2>1. PICK i \in WordsOfPath : (\A j \in 1..i : WordOf(a, j) = WordOf(b, j)) /\ HasZero(WordOf(a, i))
    BY <1>10 DEF ExactMatch
  <2>2. i \in 1..i /\ \A j \in 1..(i - 1) : j \in 1..i
    BY DEF WordsOfPath
  <2>3. /\ \A k \in 1..WordLen : a[Begin(i) + k] = b[Begin(i) + k]
        /\ \E k \in 1..WordLen : a[Begin(i) + k] = "0"
    BY <2>1, <2>2, <1>6, SameWord
  <2>4. \A x \in 1..Begin(i) : a[x] = b[x]
    BY <2>1, <2>2, <1>6, WordsBefore
  <2>5. PICK c : c = Begin(i)
    OBVIOUS
  <2>6. c \in Nat /\ c + WordLen <= PathLen /\ WordLen \in Nat
    BY <2>5, WordsCover, KernelAssumption DEF WordsLie
  <2>7. PICK k \in 1..WordLen : a[c + k] = "0"
    BY <2>3, <2>5
  <2>8. PICK z : z = c + k
    OBVIOUS
  <2>9. z \in 1..PathLen /\ a[z] = "0" /\ b[z] = "0" /\ z <= c + WordLen
    BY <2>3, <2>5, <2>6, <2>7, <2>8, <1>3
  <2>10. \A x \in 1..z : a[x] = b[x]
    <3> TAKE x \in 1..z
    <3>1. CASE x <= c
      BY <3>1, <2>4, <2>5, <2>6, <2>9
    <3>2. CASE x > c
      <4>1. PICK l : l = x - c
        OBVIOUS
      <4>2. l \in 1..WordLen /\ x = c + l
        BY <3>2, <4>1, <2>6, <2>9
      <4> QED
        BY <4>2, <2>3, <2>5
    <3> QED
      BY <3>1, <3>2, <2>6, <2>9
  <2>11. m < z /\ n < z
    BY <1>6, <1>7, <2>9
  <2>12. m = n
    <3>1. CASE m < n
      <4>1. m + 1 \in 1..z /\ m + 1 \in 1..n
        BY <3>1, <2>11, <1>6, <2>9
      <4> QED
        BY <4>1, <1>7, <1>8, <2>10
    <3>2. CASE n < m
      <4>1. m \in 1..z /\ m \in 1..PathLen /\ m \in 1..m /\ m > n
        BY <3>2, <2>11, <1>6, <2>9
      <4> QED
        BY <4>1, <1>7, <1>8, <2>10
    <3> QED
      BY <3>1, <3>2, <1>6
  <2>13. \A x \in 1..m : x \in 1..z
    BY <1>6, <2>9, <2>11
  <2>14. \A x \in 1..m : t[x] = u[x]
    BY <1>7, <2>10, <2>12, <2>13
  <2> QED
    BY <1>4, <1>5, <2>12, <2>14, SeqEqual DEF FitsWithZero, PathText
<1> QED
  BY <1>2, <1>9, <1>10

LEMMA PrefixMeans ==
  ASSUME NEW S, NEW t \in Seq(S), NEW u \in Seq(S)
  PROVE  IsPrefix(u, t) <=> Len(u) <= Len(t) /\ \A x \in 1..Len(u) : t[x] = u[x]
<1>1. PICK n : n = Len(u)
  OBVIOUS
<1>2. PICK m : m = Len(t)
  OBVIOUS
<1>3. n \in Nat /\ m \in Nat /\ (\A x \in 1..n : u[x] \in S) /\ (\A x \in 1..m : t[x] \in S)
  BY <1>1, <1>2, LenProperties, ElementOfSeq
<1>4. SUFFICES ASSUME n <= m PROVE SubSeq(u, 1, n) = SubSeq(t, 1, n) <=> \A x \in 1..n : t[x] = u[x]
  BY <1>1, <1>2 DEF IsPrefix
<1>5. n \in Int /\ 1 \in Int /\ \A x \in 1..n : x \in 1..m
  BY <1>3, <1>4
<1>6. \A x \in 1..n : t[x] \in S
  BY <1>3, <1>5
<1>7. /\ SubSeq(u, 1, n) \in Seq(S) /\ Len(SubSeq(u, 1, n)) = IF 1 <= n THEN n - 1 + 1 ELSE 0
      /\ \A i \in 1..(n - 1 + 1) : SubSeq(u, 1, n)[i] = u[1 + i - 1]
  BY <1>3, <1>5, SubSeqProperties
<1>8. /\ SubSeq(t, 1, n) \in Seq(S) /\ Len(SubSeq(t, 1, n)) = IF 1 <= n THEN n - 1 + 1 ELSE 0
      /\ \A i \in 1..(n - 1 + 1) : SubSeq(t, 1, n)[i] = t[1 + i - 1]
  BY <1>5, <1>6, SubSeqProperties
<1>9. n - 1 + 1 = n /\ (~ (1 <= n) => n = 0) /\ \A i \in 1..n : 1 + i - 1 = i
  BY <1>3
<1>10. /\ Len(SubSeq(u, 1, n)) = n /\ Len(SubSeq(t, 1, n)) = n
       /\ \A i \in 1..n : SubSeq(u, 1, n)[i] = u[i]
       /\ \A i \in 1..n : SubSeq(t, 1, n)[i] = t[i]
  BY <1>7, <1>8, <1>9
<1>11. ASSUME \A x \in 1..n : t[x] = u[x] PROVE SubSeq(u, 1, n) = SubSeq(t, 1, n)
  <2>1. \A i \in 1..n : SubSeq(u, 1, n)[i] = SubSeq(t, 1, n)[i]
    BY <1>10, <1>11
  <2> QED
    BY <2>1, <1>7, <1>8, <1>10, SeqEqual
<1>12. ASSUME SubSeq(u, 1, n) = SubSeq(t, 1, n) PROVE \A x \in 1..n : t[x] = u[x]
  BY <1>10, <1>12
<1> QED
  BY <1>11, <1>12

LEMMA PrefixIs ==
  ASSUME NEW t, FitsWithZero(t), NEW a, Carries(a, t), NEW u \in PathText, Len(u) <= PathLen
  PROVE  PrefixMatch(a, Padded(u)) <=> IsPrefix(u, t)
<1>2. PICK b : b = Padded(u)
  OBVIOUS
<1>3. Buffers(b, u) /\ PathLen \in Nat
  BY <1>2, PaddedHolds, KernelAssumption
<1>4. PICK m : m = Len(t)
  OBVIOUS
<1>5. PICK n : n = Len(u)
  OBVIOUS
<1>6. /\ m \in Nat /\ m < PathLen /\ n \in Nat /\ n <= PathLen
      /\ a \in Seq(Bytes) /\ Len(a) = PathLen /\ b \in Seq(Bytes) /\ Len(b) = PathLen
  BY <1>3, <1>4, <1>5 DEF Buffers, Carries
<1>7. /\ \A x \in 1..m : a[x] = t[x] /\ t[x] # "0"
      /\ \A x \in 1..n : b[x] = u[x] /\ u[x] # "0"
  BY <1>3, <1>4, <1>5 DEF Buffers, Carries
<1>8. /\ a[m + 1] = "0"
      /\ \A x \in 1..PathLen : x > n => b[x] = "0"
  BY <1>3, <1>4, <1>5 DEF Buffers, Carries
<1>9. IsPrefix(u, t) <=> n <= m /\ \A x \in 1..n : t[x] = u[x]
  BY <1>4, <1>5, PrefixMeans DEF FitsWithZero, PathText
<1>10. ASSUME n <= m, \A x \in 1..n : t[x] = u[x] PROVE PrefixMatch(a, b)
  <2>1. n < PathLen
    BY <1>3, <1>6, <1>10
  <2>2. PICK i \in WordsOfPath : \E k \in 1..WordLen : n + 1 = Begin(i) + k /\ Begin(i) \in Nat /\ Begin(i) <= n
    BY <2>1, <1>6, WordOfEnd
  <2>3. PICK e \in 1..WordLen : n + 1 = Begin(i) + e
    BY <2>2
  <2>4. PICK c : c = Begin(i)
    OBVIOUS
  <2>5. c \in Nat /\ c <= n
    BY <2>2, <2>4
  <2>6. \A x \in 1..n : a[x] = b[x] /\ b[x] # "0"
    <3>1. \A x \in 1..n : x \in 1..m
      BY <1>6, <1>10
    <3> QED
      BY <3>1, <1>7, <1>10
  <2>7. \A x \in 1..c : x \in 1..n
    BY <2>5, <1>6
  <2>8. (\A j \in 1..(i - 1) : WordOf(a, j) = WordOf(b, j)) /\ \A j \in 1..(i - 1) : ~HasZero(WordOf(b, j))
    BY <2>4, <2>6, <2>7, <1>6, WordsBefore
  <2>9. b[n + 1] = "0"
    BY <1>3, <1>6, <1>8, <2>1
  <2>10. HasZero(WordOf(b, i))
    BY <2>3, <2>9, <1>6, SameWord
  <2>11. ASSUME NEW k \in 1..WordLen, \A l \in 1..k : WordOf(b, i)[l] # "0" PROVE WordOf(a, i)[k] = WordOf(b, i)[k]
    <3>0. WordLen \in Nat
      BY KernelAssumption
    <3>1. \A l \in 1..WordLen : WordOf(b, i)[l] = b[c + l] /\ WordOf(a, i)[l] = a[c + l]
      BY <2>4, <1>6, WordAt
    <3>2. ~ (e <= k)
      <4>1. SUFFICES ASSUME e <= k PROVE FALSE
        OBVIOUS
      <4>2. e \in 1..k
        BY <4>1, <3>0
      <4> QED
        BY <4>2, <3>1, <2>3, <2>4, <2>9, <2>11
    <3>3. PICK x : x = c + k
      OBVIOUS
    <3>4. x \in 1..n
      BY <3>0, <3>2, <3>3, <2>3, <2>4, <2>5, <1>6
    <3> QED
      BY <3>1, <3>3, <3>4, <2>6
  <2> QED
    BY <2>8, <2>10, <2>11 DEF PrefixMatch
<1>11. ASSUME PrefixMatch(a, b) PROVE n <= m /\ \A x \in 1..n : t[x] = u[x]
  <2>1. PICK i \in WordsOfPath :
          /\ \A j \in 1..(i - 1) : WordOf(a, j) = WordOf(b, j) /\ ~HasZero(WordOf(b, j))
          /\ HasZero(WordOf(b, i))
          /\ \A k \in 1..WordLen : (\A l \in 1..k : WordOf(b, i)[l] # "0") => WordOf(a, i)[k] = WordOf(b, i)[k]
    BY <1>11 DEF PrefixMatch
  <2>2. PICK c : c = Begin(i)
    OBVIOUS
  <2>3. c \in Nat /\ c + WordLen <= PathLen /\ WordLen \in Nat
    BY <2>2, WordsCover, KernelAssumption DEF WordsLie
  <2>4. \A l \in 1..WordLen : WordOf(b, i)[l] = b[c + l] /\ WordOf(a, i)[l] = a[c + l]
    BY <2>2, <1>6, WordAt
  <2>5. (\A x \in 1..c : a[x] = b[x]) /\ \A x \in 1..c : b[x] # "0"
    BY <2>1, <2>2, <1>6, WordsBefore
  <2>6. PICK k \in 1..WordLen : b[c + k] = "0"
    BY <2>1, <2>2, <1>6, SameWord
  <2>7. PICK z : z = c + k
    OBVIOUS
  <2>8. z \in Nat /\ z \in 1..PathLen /\ b[z] = "0" /\ z <= c + WordLen
    BY <2>3, <2>6, <2>7, <1>3
  <2>9. n < z
    BY <2>8, <1>6, <1>7
  <2>10. c <= n
    <3>1. SUFFICES ASSUME n < c PROVE FALSE
      BY <2>3, <1>6
    <3>2. n + 1 \in 1..c /\ n + 1 \in 1..PathLen /\ n + 1 > n
      BY <3>1, <2>3, <1>3, <1>6
    <3> QED
      BY <3>2, <2>5, <1>8
  <2>11. \A x \in 1..n : a[x] = b[x]
    <3> TAKE x \in 1..n
    <3>1. CASE x <= c
      BY <3>1, <2>3, <2>5, <1>6
    <3>2. CASE x > c
      <4>1. PICK y : y = x - c
        OBVIOUS
      <4>2. y \in 1..WordLen /\ x = c + y
        BY <3>2, <4>1, <2>3, <2>8, <2>9, <1>6
      <4>3. ASSUME NEW l \in 1..y PROVE l \in 1..WordLen /\ WordOf(b, i)[l] # "0"
        <5>1. l \in 1..WordLen /\ c + l \in 1..n
          BY <4>2, <2>3, <1>6
        <5> QED
          BY <5>1, <2>4, <1>7
      <4>4. WordOf(a, i)[y] = WordOf(b, i)[y]
        BY <4>2, <4>3, <2>1
      <4> QED
        BY <4>2, <4>4, <2>4
    <3> QED
      BY <3>1, <3>2, <2>3, <1>6
  <2>12. n <= m
    <3>1. SUFFICES ASSUME m < n PROVE FALSE
      BY <1>6
    <3>2. m + 1 \in 1..n
      BY <3>1, <1>6
    <3> QED
      BY <3>2, <2>11, <1>7, <1>8
  <2>13. \A x \in 1..n : x \in 1..m
    BY <2>12, <1>6
  <2> QED
    BY <2>11, <2>12, <2>13, <1>7
<1> QED
  BY <1>2, <1>9, <1>10, <1>11

\* A set of numbers that is not empty has a least member.
LEMMA LeastNumber ==
  ASSUME NEW T \in SUBSET Nat, T # {}
  PROVE  \E x \in T : \A y \in T : x <= y
<1>1. PICK x \in T : \A y \in T : ~(<<y, x>> \in OpToRel(<, Nat))
  BY NatLessThanWellFounded, WFMin
<1>2. \A y \in T : ~(y < x)
  BY <1>1 DEF OpToRel
<1> QED
  BY <1>2

\* The first place a sequence is searched for.
FirstOf(I) == IF I # {} THEN Min(I) ELSE 0

LEMMA FirstIs ==
  ASSUME NEW n \in Nat, NEW I \in SUBSET (1..n)
  PROVE  /\ FirstOf(I) = 0 <=> I = {}
         /\ I # {} => FirstOf(I) \in I /\ \A y \in I : FirstOf(I) <= y
<1>1. CASE I = {}
  BY <1>1 DEF FirstOf
<1>2. CASE I # {}
  <2>1. I \in SUBSET Nat
    OBVIOUS
  <2>2. \E x \in I : \A y \in I : x <= y
    BY <1>2, <2>1, LeastNumber
  <2>3. Min(I) \in I /\ \A y \in I : Min(I) <= y
    BY <2>2 DEF Min
  <2>4. Min(I) # 0
    BY <2>3
  <2> QED
    BY <1>2, <2>3, <2>4 DEF FirstOf
<1> QED
  BY <1>1, <1>2

(***************************************************************************)
(* KernelPolicy.  Patterns that both sides read alike.                     *)
(***************************************************************************)
Names(p, t) == IF Starred(p) THEN IsPrefix(Front(p), t) ELSE t = p

LEMMA StarAtTheEnd ==
  ASSUME NEW p \in PathText, Plain(p)
  PROVE  p # <<"*">> /\ \A i \in 1..Len(p) : p[i] = "*" => i = Len(p)
<1>1. PICK n : n = Len(p)
  OBVIOUS
<1>2. n \in Nat
  BY <1>1, LenProperties DEF PathText
<1> DEFINE I == {i \in 1..n : p[i] = "*"}
<1>3. SelectInSeq(p, LAMBDA c : c = "*") = FirstOf(I)
  BY <1>1 DEF SelectInSeq, FirstOf
<1>4. Contains(p, "*") <=> I # {}
  BY <1>1 DEF Contains
<1>5. I # {} => FirstOf(I) = n
  BY <1>1, <1>3, <1>4 DEF Plain
<1>6. I # {} => FirstOf(I) \in I /\ \A y \in I : FirstOf(I) <= y
  BY <1>2, FirstIs
<1>7. \A i \in 1..n : p[i] = "*" => i = n
  <2> SUFFICES ASSUME NEW i \in 1..n, p[i] = "*" PROVE i = n
    OBVIOUS
  <2>1. i \in I
    OBVIOUS
  <2> QED
    BY <2>1, <1>2, <1>5, <1>6
<1> QED
  BY <1>1, <1>7 DEF Plain

LEMMA FrontIs ==
  ASSUME NEW S, NEW p \in Seq(S), p # <<>>
  PROVE  /\ Len(p) \in Nat \ {0} /\ Front(p) \in Seq(S) /\ Len(Front(p)) = Len(p) - 1
         /\ \A i \in 1..(Len(p) - 1) : Front(p)[i] = p[i]
<1>1. PICK n : n = Len(p)
  OBVIOUS
<1>2. n \in Nat \ {0} /\ \A i \in 1..n : p[i] \in S
  BY <1>1, LenProperties, EmptySeq
<1>3. PICK m : m = n - 1
  OBVIOUS
<1>4. m \in Nat /\ m \in Int /\ 1 \in Int /\ \A i \in 1..m : i \in 1..n
  BY <1>2, <1>3
<1>5. /\ SubSeq(p, 1, m) \in Seq(S) /\ Len(SubSeq(p, 1, m)) = IF 1 <= m THEN m - 1 + 1 ELSE 0
      /\ \A i \in 1..(m - 1 + 1) : SubSeq(p, 1, m)[i] = p[1 + i - 1]
  BY <1>2, <1>4, SubSeqProperties
<1>6. m - 1 + 1 = m /\ (~ (1 <= m) => m = 0) /\ \A i \in 1..m : 1 + i - 1 = i
  BY <1>4
<1>7. Len(SubSeq(p, 1, m)) = m /\ \A i \in 1..m : SubSeq(p, 1, m)[i] = p[i]
  BY <1>5, <1>6
<1>8. Front(p) = SubSeq(p, 1, m)
  BY <1>1, <1>3 DEF Front
<1> QED
  BY <1>1, <1>2, <1>3, <1>5, <1>7, <1>8

\* What GlobMatch gathers, one symbol of the pattern after another.
Reaching(p, t, r) ==
  r = [i \in 0..Len(p) |->
        IF i = 0 THEN {0}
        ELSE IF p[i] = "*" THEN {k \in 0..Len(t) : \E j \in r[i - 1] : j <= k}
        ELSE {k \in 1..Len(t) : t[k] = p[i] /\ k - 1 \in r[i - 1]}]

LEMMA GlobUnfolds ==
  ASSUME NEW p, NEW t, \E g : Reaching(p, t, g)
  PROVE  \E r : Reaching(p, t, r) /\ (GlobMatch(p, t) <=> Len(t) \in r[Len(p)])
<1> DEFINE R == CHOOSE r : Reaching(p, t, r)
<1>1. Reaching(p, t, R)
  OBVIOUS
<1>2. GlobMatch(p, t) <=> Len(t) \in R[Len(p)]
  BY DEF GlobMatch, Reaching
<1> QED
  BY <1>1, <1>2

LEMMA ReachesOnce ==
  ASSUME NEW p, NEW t, NEW r, NEW g, Len(p) \in Nat, Reaching(p, t, r), Reaching(p, t, g)
  PROVE  r[Len(p)] = g[Len(p)]
<1>1. PICK n : n = Len(p)
  OBVIOUS
<1> DEFINE T == {i \in 0..n : r[i] # g[i]}
<1>2. SUFFICES ASSUME T # {} PROVE FALSE
  BY <1>1
<1>3. n \in Nat /\ T \in SUBSET Nat
  BY <1>1
<1>4. PICK i \in T : \A j \in T : i <= j
  BY <1>2, <1>3, LeastNumber
<1>5. i # 0
  BY <1>1, <1>4 DEF Reaching
<1>6. i - 1 \in 0..n /\ i - 1 \notin T
  BY <1>3, <1>4, <1>5
<1>7. r[i - 1] = g[i - 1]
  BY <1>6
<1>8. r[i] = g[i]
  <2>1. i \in 0..Len(p)
    BY <1>1, <1>4
  <2>2. r[i] = IF p[i] = "*" THEN {k \in 0..Len(t) : \E j \in r[i - 1] : j <= k}
               ELSE {k \in 1..Len(t) : t[k] = p[i] /\ k - 1 \in r[i - 1]}
    BY <1>5, <2>1 DEF Reaching
  <2>3. g[i] = IF p[i] = "*" THEN {k \in 0..Len(t) : \E j \in g[i - 1] : j <= k}
               ELSE {k \in 1..Len(t) : t[k] = p[i] /\ k - 1 \in g[i - 1]}
    BY <1>5, <2>1 DEF Reaching
  <2> QED
    BY <2>2, <2>3, <1>7
<1> QED
  BY <1>4, <1>8

LEMMA GlobMatchIs ==
  ASSUME NEW p \in PathText, Plain(p), NEW t \in PathText
  PROVE  GlobMatch(p, t) <=> Names(p, t)
<1>1. PICK n : n = Len(p)
  OBVIOUS
<1>2. PICK m : m = Len(t)
  OBVIOUS
<1>3. n \in Nat /\ m \in Nat
  BY <1>1, <1>2, LenProperties DEF PathText
<1>4. \A i \in 1..n : p[i] = "*" => i = n
  BY <1>1, StarAtTheEnd
<1> DEFINE Same(i) == i <= m /\ \A j \in 1..i : t[j] = p[j]
           g == [i \in 0..n |-> IF i > 0 /\ p[i] = "*" THEN {k \in 0..m : i - 1 <= k /\ Same(i - 1)}
                                ELSE {k \in {i} : Same(i)}]
<1>5. Reaching(p, t, g)
  <2> DEFINE F(i) == IF i = 0 THEN {0}
                     ELSE IF p[i] = "*" THEN {k \in 0..m : \E j \in g[i - 1] : j <= k}
                     ELSE {k \in 1..m : t[k] = p[i] /\ k - 1 \in g[i - 1]}
  <2>1. ASSUME NEW i \in 0..n PROVE g[i] = F(i)
    <3>1. CASE i = 0
      <4>1. Same(0)
        BY <1>3
      <4> QED
        BY <3>1, <4>1, <1>3
    <3>2. CASE i # 0
      <4>1. PICK h : h = i - 1
        OBVIOUS
      <4>2. h \in 0..n /\ h < n /\ i = h + 1 /\ i > 0 /\ i \in 1..n
        BY <3>2, <4>1, <1>3
      <4>3. ~ (h > 0 /\ p[h] = "*")
        BY <4>2, <1>3, <1>4
      <4>4. g[h] = {k \in {h} : Same(h)}
        BY <4>2, <4>3
      <4> HIDE DEF Same
      <4>5. CASE p[i] = "*"
        <5>1. g[i] = {k \in 0..m : h <= k /\ Same(h)}
          BY <4>1, <4>2, <4>5
        <5>2. F(i) = {k \in 0..m : \E j \in g[h] : j <= k}
          BY <3>2, <4>1, <4>5
        <5> HIDE DEF g, F
        <5> QED
          BY <4>4, <5>1, <5>2
      <4>6. CASE p[i] # "*"
        <5>1. g[i] = {k \in {i} : Same(i)}
          BY <4>2, <4>6
        <5>2. F(i) = {k \in 1..m : t[k] = p[i] /\ k - 1 \in g[h]}
          BY <3>2, <4>1, <4>6
        <5>3. Same(i) <=> Same(h) /\ i <= m /\ t[i] = p[i]
          <6>1. 1..i = (1..h) \cup {i}
            BY <4>2
          <6>2. i <= m => h <= m
            BY <4>2, <1>3
          <6> QED
            BY <6>1, <6>2 DEF Same
        <5> HIDE DEF g, F
        <5>4. \A k \in 1..m : k - 1 = h <=> k = i
          BY <4>2, <1>3
        <5>5. i <= m => i \in 1..m
          BY <4>2, <1>3
        <5>6. \A k : k \in g[i] <=> k = i /\ Same(i)
          BY <5>1
        <5>7. \A k : k \in F(i) <=> k \in 1..m /\ t[k] = p[i] /\ k - 1 = h /\ Same(h)
          BY <4>4, <5>2
        <5>8. ASSUME NEW k \in g[i] PROVE k \in F(i)
          BY <5>3, <5>4, <5>5, <5>6, <5>7
        <5>9. ASSUME NEW k \in F(i) PROVE k \in g[i]
          <6>1. k \in 1..m /\ k = i /\ t[k] = p[i] /\ Same(h)
            BY <5>4, <5>7
          <6>2. i <= m
            BY <6>1, <1>3
          <6> QED
            BY <5>3, <5>6, <6>1, <6>2
        <5> QED
          BY <5>8, <5>9
      <4> QED
        BY <4>5, <4>6
    <3> QED
      BY <3>1, <3>2
  <2>2. g = [i \in 0..n |-> F(i)]
    BY <2>1
  <2> QED
    BY <2>2, <1>1, <1>2 DEF Reaching
<1>6. PICK r : Reaching(p, t, r) /\ (GlobMatch(p, t) <=> m \in r[n])
  <2>1. \E x : Reaching(p, t, x)
    BY <1>5
  <2> QED
    BY <2>1, <1>1, <1>2, GlobUnfolds
<1>7. GlobMatch(p, t) <=> m \in g[n]
  <2>1. r[n] = g[n]
    BY <1>1, <1>3, <1>5, <1>6, ReachesOnce
  <2> QED
    BY <1>6, <2>1
<1>8. n \in 0..n
  BY <1>3
<1>9. CASE Starred(p)
  <2>1. n > 0 /\ p[n] = "*" /\ p # <<>>
    BY <1>9, <1>1, <1>3, EmptySeq DEF Starred, Last, PathText
  <2>2. PICK h : h = n - 1
    OBVIOUS
  <2>3. GlobMatch(p, t) <=> h <= m /\ \A j \in 1..h : t[j] = p[j]
    BY <1>3, <1>7, <1>8, <2>1, <2>2
  <2>4. PICK f : f = Front(p)
    OBVIOUS
  <2>5. f \in PathText /\ Len(f) = h /\ \A j \in 1..h : f[j] = p[j]
    BY <1>1, <2>1, <2>2, <2>4, FrontIs DEF PathText
  <2>6. IsPrefix(f, t) <=> h <= m /\ \A j \in 1..h : t[j] = f[j]
    BY <1>2, <2>5, PrefixMeans DEF PathText
  <2> QED
    BY <1>9, <2>3, <2>4, <2>5, <2>6 DEF Names
<1>10. CASE ~Starred(p)
  <2>1. ~ (n > 0 /\ p[n] = "*")
    BY <1>10, <1>1, <1>3, EmptySeq DEF Starred, Last, PathText
  <2>2. GlobMatch(p, t) <=> m = n /\ n <= m /\ \A j \in 1..n : t[j] = p[j]
    BY <1>3, <1>7, <1>8, <2>1
  <2>3. GlobMatch(p, t) <=> m = n /\ \A j \in 1..m : t[j] = p[j]
    BY <2>2, <1>3
  <2>4. t = p <=> m = n /\ \A j \in 1..m : t[j] = p[j]
    BY <1>1, <1>2, SeqEqual DEF PathText
  <2> QED
    BY <1>10, <2>3, <2>4 DEF Names
<1> QED
  BY <1>9, <1>10

\* A compiled pattern that has room in a table names what the pattern names.
LEMMA CompiledNames ==
  ASSUME NEW p, FitsWithZero(p), Plain(p), NEW t, FitsWithZero(t), NEW a, Carries(a, t)
  PROVE  /\ PathMatches(CompileGlob(p), a) => Names(p, t)
         /\ Starred(p) \/ ZerosFollow(a, t) => (Names(p, t) => PathMatches(CompileGlob(p), a))
<1> p \in PathText /\ Len(p) < PathLen /\ Len(p) \in Nat /\ PathLen \in Nat
  BY LenProperties, KernelAssumption DEF FitsWithZero, PathText
<1>0. p # <<"*">> /\ \A i \in 1..Len(p) : p[i] = "*" => i = Len(p)
  BY StarAtTheEnd
<1>1. CASE Starred(p)
  <2>1. CompileGlob(p) = [type |-> "prefix", path |-> Front(p)]
    BY <1>0, <1>1 DEF CompileGlob, Starred
  <2>2. Front(p) \in PathText /\ Len(Front(p)) <= PathLen
    <3>1. PICK f : f = Front(p)
      OBVIOUS
    <3>2. f \in PathText /\ Len(f) = Len(p) - 1
      BY <1>1, <3>1, FrontIs DEF Starred, PathText
    <3>3. Len(f) <= PathLen
      BY <3>2
    <3> QED
      BY <3>1, <3>2, <3>3
  <2>3. PathMatches(CompileGlob(p), a) <=> PrefixMatch(a, Padded(Front(p)))
    BY <2>1 DEF PathMatches
  <2> QED
    BY <1>1, <2>2, <2>3, PrefixIs DEF Names
<1>2. CASE ~Starred(p)
  <2>1. CompileGlob(p) = [type |-> "exact", path |-> p]
    <3>1. CASE p = <<>>
      BY <3>1 DEF CompileGlob
    <3>2. CASE p # <<>>
      <4>1. ~Contains(p, "*")
        <5>1. SUFFICES ASSUME NEW i \in 1..Len(p), p[i] = "*" PROVE FALSE
          BY DEF Contains
        <5>2. p[Len(p)] = "*"
          BY <5>1, <1>0
        <5> QED
          BY <5>2, <3>2, <1>2 DEF Starred, Last
      <4> QED
        BY <4>1, <3>2, <1>0, <1>2 DEF CompileGlob, Starred
    <3> QED
      BY <3>1, <3>2
  <2>2. Len(p) <= PathLen
    OBVIOUS
  <2>3. PathMatches(CompileGlob(p), a) <=> ExactMatch(a, Padded(p))
    BY <2>1 DEF PathMatches
  <2> QED
    BY <1>2, <2>2, <2>3, ExactIs DEF Names
<1> QED
  BY <1>1, <1>2

(***************************************************************************)
(* KernelPolicy.  The path put together from names.                        *)
(***************************************************************************)
Flattening(q, n, f) == f = [i \in 1..n |-> IF i = 1 THEN q[i] ELSE f[i - 1] \o q[i]]

LEMMA Flattens ==
  ASSUME NEW q, NEW n \in Nat
  PROVE  \E f : Flattening(q, n, f)
<1> DEFINE T == {m \in Nat : ~ \E f : Flattening(q, m, f)}
<1>1. SUFFICES ASSUME T # {} PROVE FALSE
  OBVIOUS
<1>2. PICK m \in T : \A j \in T : m <= j
  BY <1>1, LeastNumber
<1>3. CASE m = 0
  <2> DEFINE e == [i \in 1..0 |-> <<>>]
  <2>1. Flattening(q, 0, e)
    BY DEF Flattening
  <2> QED
    BY <1>2, <1>3, <2>1
<1>4. CASE m # 0
  <2>1. PICK l : l = m - 1
    OBVIOUS
  <2>2. l \in Nat /\ l < m /\ m = l + 1 /\ m \in Nat
    BY <1>2, <1>4, <2>1
  <2>3. PICK f : Flattening(q, l, f)
    BY <1>2, <2>2
  <2> DEFINE F(h, i) == IF i = 1 THEN q[i] ELSE h[i - 1] \o q[i]
             g == [i \in 1..m |-> IF i = m THEN F(f, m) ELSE f[i]]
  <2>4. ASSUME NEW i \in 1..m PROVE g[i] = F(g, i)
    <3>1. CASE i = m
      <4>1. CASE m = 1
        BY <3>1, <4>1
      <4>2. CASE m # 1
        <5>1. m - 1 \in 1..m /\ m - 1 # m
          BY <2>2, <4>2
        <5>2. g[m - 1] = f[m - 1]
          BY <5>1
        <5>3. g[m] = F(f, m)
          BY <2>2
        <5> HIDE DEF g
        <5> QED
          BY <3>1, <5>2, <5>3
      <4> QED
        BY <4>1, <4>2
    <3>2. CASE i # m
      <4>1. i \in 1..l
        BY <3>2, <2>2
      <4>2. g[i] = f[i]
        BY <3>2
      <4>3. f[i] = F(f, i)
        BY <4>1, <2>3 DEF Flattening
      <4>4. CASE i = 1
        BY <4>2, <4>3, <4>4
      <4>5. CASE i # 1
        <5>1. i - 1 \in 1..m /\ i - 1 # m
          BY <4>1, <4>5, <2>2
        <5>2. g[i - 1] = f[i - 1]
          BY <5>1
        <5> HIDE DEF g
        <5> QED
          BY <4>2, <4>3, <5>2
      <4> QED
        BY <4>4, <4>5
    <3> QED
      BY <3>1, <3>2
  <2>5. g = [i \in 1..m |-> F(g, i)]
    BY <2>4
  <2>6. Flattening(q, m, g)
    BY <2>5 DEF Flattening
  <2> QED
    BY <1>2, <2>6
<1> QED
  BY <1>3, <1>4

LEMMA FlatIsText ==
  ASSUME NEW S, NEW q \in Seq(Seq(S))
  PROVE  FlattenSeq(q) \in Seq(S)
<1>1. PICK n : n = Len(q)
  OBVIOUS
<1>2. n \in Nat /\ \A i \in 1..n : q[i] \in Seq(S)
  BY <1>1, LenProperties, ElementOfSeq
<1>3. CASE n = 0
  <2>1. q = <<>>
    BY <1>1, <1>3, EmptySeq
  <2>2. FlattenSeq(q) = <<>>
    BY <1>1, <1>3, <2>1 DEF FlattenSeq
  <2> QED
    BY <2>2, EmptySeq
<1>4. CASE n # 0
  <2> DEFINE f == CHOOSE x : Flattening(q, n, x)
  <2>1. Flattening(q, n, f)
    BY <1>2, Flattens
  <2>2. FlattenSeq(q) = f[n]
    BY <1>1, <1>4 DEF FlattenSeq, Flattening
  <2> HIDE DEF f
  <2> DEFINE T == {i \in 1..n : f[i] \notin Seq(S)}
  <2>3. T = {}
    <3>1. SUFFICES ASSUME T # {} PROVE FALSE
      OBVIOUS
    <3>2. T \in SUBSET Nat
      OBVIOUS
    <3>3. PICK i \in T : \A j \in T : i <= j
      BY <3>1, <3>2, LeastNumber
    <3>4. f[i] = IF i = 1 THEN q[i] ELSE f[i - 1] \o q[i]
      BY <2>1, <3>3 DEF Flattening
    <3>5. q[i] \in Seq(S)
      BY <1>2, <3>3
    <3>6. i # 1
      BY <3>3, <3>4, <3>5
    <3>7. i - 1 \in 1..n /\ i - 1 \notin T
      BY <1>2, <3>3, <3>6
    <3>8. f[i - 1] \in Seq(S)
      BY <3>7
    <3>9. f[i - 1] \o q[i] \in Seq(S)
      BY <3>5, <3>8, ConcatProperties
    <3> QED
      BY <3>3, <3>4, <3>6, <3>9
  <2>4. n \in 1..n
    BY <1>2, <1>4
  <2> QED
    BY <2>2, <2>3, <2>4
<1> QED
  BY <1>3, <1>4

LEMMA SourceFits ==
  ASSUME NEW names \in Seq(PathText), GetSource(names) # <<>>
  PROVE  \E text : GetSource(names) = <<text>> /\ FitsWithZero(text)
<1>1. PICK n : n = Len(names)
  OBVIOUS
<1>2. n \in Nat /\ \A i \in 1..n : names[i] \in PathText
  BY <1>1, LenProperties, ElementOfSeq
<1>3. PICK m : m = (IF n > MaxDepth THEN n - MaxDepth ELSE 0) + 1
  OBVIOUS
<1>4. m \in Nat /\ m >= 1
  BY <1>2, <1>3, KernelAssumption
<1>5. PICK kept : kept = SubSeq(names, m, n)
  OBVIOUS
<1>6. kept \in Seq(PathText)
  <2>1. m \in Int /\ n \in Int /\ \A i \in m..n : i \in 1..n
    BY <1>2, <1>4
  <2>2. \A i \in m..n : names[i] \in PathText
    BY <1>2, <2>1
  <2> QED
    BY <1>5, <2>1, <2>2, SubSeqProperties
<1>7. PICK q : q = [k \in DOMAIN kept |-> <<"/">> \o kept[k]]
  OBVIOUS
<1>8. q \in Seq(Seq(Symbols))
  <2>1. PICK l : l = Len(kept)
    OBVIOUS
  <2>2. l \in Nat /\ DOMAIN kept = 1..l /\ \A k \in 1..l : kept[k] \in Seq(Symbols)
    BY <1>6, <2>1, LenProperties, ElementOfSeq DEF PathText
  <2>3. <<"/">> \in Seq(Symbols)
    BY KernelAssumption
  <2>4. \A k \in 1..l : <<"/">> \o kept[k] \in Seq(Symbols)
    BY <2>2, <2>3, ConcatProperties
  <2>5. q \in [1..l -> Seq(Symbols)]
    BY <1>7, <2>2, <2>4
  <2> QED
    BY <2>2, <2>5
<1>9. PICK text : text = FlattenSeq(q)
  OBVIOUS
<1>10. text \in PathText
  BY <1>8, <1>9, FlatIsText DEF PathText
<1>11. GetSource(names) = IF text = <<>> \/ Len(text) >= PathLen THEN <<>> ELSE <<text>>
  BY <1>1, <1>3, <1>5, <1>7, <1>9 DEF GetSource
<1>12. text # <<>> /\ ~ (Len(text) >= PathLen) /\ GetSource(names) = <<text>>
  BY <1>11
<1>13. Len(text) \in Nat /\ PathLen \in Nat
  BY <1>10, LenProperties, KernelAssumption DEF PathText
<1>14. Len(text) < PathLen
  BY <1>12, <1>13
<1> QED
  BY <1>10, <1>12, <1>14 DEF FitsWithZero

(***************************************************************************)
(* KernelPolicy.  A call under a policy that its maps hold, and the answer *)
(* its hook gave.                                                          *)
(***************************************************************************)
Stored(policy) == policy = NoCase \/ (policy \in Policies /\ ~NotStored(policy) /\ ~TooLarge(policy))
Closed(sock) == sock \in Seq(PathText) /\ (sock # <<>> => FitsWithZero(sock[1]))

Given(c) ==
  /\ c = [policy |-> c.policy, sock |-> c.sock, proxy |-> c.proxy, full |-> c.full, call |-> c.call]
  /\ Stored(c.policy) /\ Closed(c.sock)
  /\ c.proxy \in [addr : Address, port : Nat, route : Nat, container : Address]
  /\ c.call \in Calls /\ (c.call.hook = "unix" => FitsWithZero(c.call.path))

KerInv ==
  /\ (kerCase = NoCase /\ kerOut = NoCase) \/ (Given(kerCase) /\ kerOut = Hook(kerCase))
  /\ kerTexts # NoCase => FitsWithZero(kerTexts[1]) /\ FitsWithZero(kerTexts[2])

LEMMA KernelStarts == KernelInit => KerInv
BY DEF KernelInit, KerInv

LEMMA KernelCallKeeps == KerInv /\ KernelCall => KerInv'
<1> SUFFICES ASSUME KerInv, KernelCall PROVE KerInv'
  OBVIOUS
<1>1. PICK k \in KernelCases :
        \E policy \in k.policy, sock \in k.sock, aim \in k.proxy, full \in k.full, call \in k.call :
          /\ policy # NoCase => ~NotStored(policy) /\ ~TooLarge(policy)
          /\ kerCase' = [policy |-> policy, sock |-> sock, proxy |-> aim, full |-> full, call |-> call]
          /\ kerOut' = Hook(kerCase')
  BY DEF KernelCall
<1>2. PICK policy \in k.policy, sock \in k.sock, aim \in k.proxy, full \in k.full, call \in k.call :
        /\ policy # NoCase => ~NotStored(policy) /\ ~TooLarge(policy)
        /\ kerCase' = [policy |-> policy, sock |-> sock, proxy |-> aim, full |-> full, call |-> call]
        /\ kerOut' = Hook(kerCase')
  BY <1>1
<1>3. /\ policy = NoCase \/ policy \in Policies
      /\ Closed(sock)
      /\ aim \in [addr : Address, port : Nat, route : Nat, container : Address]
      /\ call \in Calls /\ (call.hook = "unix" => FitsWithZero(call.path))
  BY <1>1, <1>2, KernelAssumption DEF Closed
<1>4. PICK c : c = kerCase'
  OBVIOUS
<1>5. c = [policy |-> policy, sock |-> sock, proxy |-> aim, full |-> full, call |-> call]
  BY <1>2, <1>4
<1>6. /\ c.policy = policy /\ c.sock = sock /\ c.proxy = aim /\ c.full = full /\ c.call = call
  BY <1>5
<1>7. Given(c)
  BY <1>2, <1>3, <1>5, <1>6 DEF Given, Stored
<1>8. Given(kerCase') /\ kerOut' = Hook(kerCase')
  BY <1>2, <1>4, <1>7
<1>9. kerTexts' = kerTexts
  BY DEF KernelCall
<1> QED
  BY <1>8, <1>9 DEF KerInv

LEMMA KernelKeeps == KerInv /\ [KernelNext]_kerVars => KerInv'
<1> SUFFICES ASSUME KerInv, [KernelNext]_kerVars PROVE KerInv'
  OBVIOUS
<1>1. CASE KernelCall
  BY <1>1, KernelCallKeeps
<1>2. CASE KernelCompare
  <2>1. kerTexts' \in KernelTexts \X KernelTexts /\ kerCase' = kerCase /\ kerOut' = kerOut
    BY <1>2 DEF KernelCompare
  <2>2. FitsWithZero(kerTexts'[1]) /\ FitsWithZero(kerTexts'[2])
    <3>1. kerTexts'[1] \in KernelTexts /\ kerTexts'[2] \in KernelTexts
      BY <2>1
    <3> QED
      BY <3>1, KernelAssumption
  <2> QED
    BY <2>1, <2>2 DEF KerInv
<1>3. CASE UNCHANGED kerVars
  BY <1>3 DEF KerInv, kerVars
<1> QED
  BY <1>1, <1>2, <1>3 DEF KernelNext

LEMMA HookIs ==
  ASSUME NEW c
  PROVE  /\ c.call.hook = "capable" => Hook(c) = HandleCapable(c)
         /\ c.call.hook = "open" => Hook(c) = HandleFileOpen(c)
         /\ c.call.hook = "exec" => Hook(c) = HandleBprmExec(c)
         /\ c.call.hook = "unix" => Hook(c) = HandleUnixConnect(c)
         /\ c.call.hook = "connect" => Hook(c) = HandleConnect4(c)
BY DEF Hook

LEMMA HookOfCall ==
  ASSUME NEW call \in Calls
  PROVE  /\ call.hook \in {"capable", "open", "exec", "unix", "connect"}
         /\ call.hook = "capable" => call.exe \in Seq(PathText)
         /\ call.hook \in {"open", "exec", "unix"} => call.path \in PathText
         /\ call.hook = "connect" => call.addr \in Address
BY DEF Calls

LEMMA EmitIs ==
  ASSUME NEW full, NEW mode \in {"block", "alert"}
  PROVE  /\ Emit(full, mode).verdict \in {"pass", "refused"}
         /\ Emit(full, mode).event \in {"none", "block", "alert"}
         /\ Emit(full, mode).verdict = "refused" <=> mode = "block"
         /\ Emit(full, mode).verdict = "refused" => Emit(full, mode).event \in {"none", "block"}
BY DEF Emit, HookAnswer

LEMMA PassIs == Pass.verdict = "pass" /\ Pass.event = "none"
BY DEF Pass, HookAnswer

LEMMA ModeIs ==
  ASSUME NEW policy, Stored(policy), policy # NoCase
  PROVE  /\ policy \in Policies /\ policy.mode \in {"block", "alert"} /\ policy.default \in {"allow", "block"}
         /\ policy.caps \in Seq(CapabilityRules) /\ policy.files \in Seq(FileRules) /\ policy.nets \in Seq(NetworkRules)
         /\ ~NotStored(policy) /\ ~TooLarge(policy)
BY DEF Stored, Policies

\* The first of the rules that fit decides; else the policy's default.
Fitting(policy, call) == {k \in 1..Len(policy.nets) : MatchNetworkRule(policy.nets[k], call)}

LEMMA NetworkDecides ==
  ASSUME NEW policy, Stored(policy), policy # NoCase, NEW call
  PROVE  /\ CheckNetworkRules(policy, call) \in {"allow", "block", "redirect"}
         /\ CheckNetworkRules(policy, call) =
              IF FirstOf(Fitting(policy, call)) = 0 THEN policy.default
              ELSE policy.nets[FirstOf(Fitting(policy, call))].action
<1>1. PICK k : k = FirstOf(Fitting(policy, call))
  OBVIOUS
<1>2. CheckNetworkRules(policy, call) = IF k = 0 THEN policy.default ELSE policy.nets[k].action
  BY <1>1 DEF CheckNetworkRules, SelectInSeq, FirstOf, Fitting
<1>3. PICK n : n = Len(policy.nets)
  OBVIOUS
<1>4. n \in Nat /\ policy.default \in {"allow", "block"} /\ \A i \in 1..n : policy.nets[i] \in NetworkRules
  BY <1>3, ModeIs, LenProperties, ElementOfSeq
<1>5. Fitting(policy, call) \in SUBSET (1..n)
  BY <1>3 DEF Fitting
<1>6. k # 0 => k \in 1..n
  BY <1>1, <1>4, <1>5, FirstIs
<1>7. k # 0 => policy.nets[k].action \in {"allow", "block", "redirect"}
  BY <1>4, <1>6 DEF NetworkRules
<1> QED
  BY <1>1, <1>2, <1>4, <1>7

\* What the hook of connect answers, piece by piece.
LEMMA ConnectIs ==
  ASSUME NEW c, Given(c)
  PROVE  /\ HandleConnect4(c).verdict \in {"pass", "refused"}
         /\ HandleConnect4(c).event \in {"none", "block", "alert", "allow", "redirect"}
         /\ HandleConnect4(c).verdict = "refused" => HandleConnect4(c).event \in {"none", "block"}
         /\ HandleConnect4(c).verdict =
              IF c.policy # NoCase /\ ~(c.policy.port # 0 /\ c.call.port = c.policy.port /\ c.call.addr = c.proxy.container)
                 /\ CheckNetworkRules(c.policy, c.call) = "block"
              THEN "refused" ELSE "pass"
<1>1. CASE c.policy = NoCase
  BY <1>1 DEF HandleConnect4, Reaches
<1>2. CASE c.policy # NoCase
  <2>1. PICK a : a = CheckNetworkRules(c.policy, c.call)
    OBVIOUS
  <2>2. a \in {"allow", "block", "redirect"}
    BY <1>2, <2>1, NetworkDecides DEF Given
  <2> QED
    BY <1>2, <2>1, <2>2 DEF HandleConnect4, Reaches
<1> QED
  BY <1>1, <1>2

LEMMA KernelTyped == KerInv => KernelTypeOK
<1> SUFFICES ASSUME Given(kerCase), kerOut = Hook(kerCase) PROVE KernelTypeOK
  BY DEF KerInv, KernelTypeOK
<1>1. PICK c : c = kerCase
  OBVIOUS
<1>2. Given(c) /\ kerOut = Hook(c)
  BY <1>1
<1> DEFINE Good(o) == /\ o.verdict \in {"pass", "refused"}
                      /\ o.event \in {"none", "block", "alert", "allow", "redirect"}
                      /\ o.verdict = "refused" => o.event \in {"none", "block"}
<1>3. \A full : \A mode \in {"block", "alert"} : Good(Emit(full, mode))
  BY EmitIs
<1>4. Good(Pass)
  BY PassIs
<1>5. c.policy # NoCase => c.policy.mode \in {"block", "alert"}
  BY <1>2, ModeIs DEF Given
<1>6. SUFFICES Good(Hook(c))
  BY <1>2 DEF KernelTypeOK
<1> HIDE DEF Good
<1>7. CASE c.call.hook = "capable"
  BY <1>3, <1>4, <1>5, <1>7, HookIs DEF HandleCapable
<1>8. CASE c.call.hook = "open"
  BY <1>3, <1>4, <1>5, <1>8, HookIs DEF HandleFileOpen, ByRule
<1>9. CASE c.call.hook = "exec"
  BY <1>3, <1>4, <1>5, <1>9, HookIs DEF HandleBprmExec, ByRule
<1>10. CASE c.call.hook = "unix"
  BY <1>3, <1>4, <1>5, <1>10, HookIs DEF HandleUnixConnect
<1>11. CASE c.call.hook = "connect"
  BY <1>2, <1>11, HookIs, ConnectIs DEF Good
<1> QED
  BY <1>2, <1>7, <1>8, <1>9, <1>10, <1>11, HookOfCall DEF Given

LEMMA WordsKept == KerInv => WordsCompareLikeText
<1> SUFFICES ASSUME KerInv, kerTexts # NoCase PROVE WordsCompareLikeText
  BY DEF WordsCompareLikeText
<1>1. PICK t : t = kerTexts[1]
  OBVIOUS
<1>2. PICK u : u = kerTexts[2]
  OBVIOUS
<1>3. FitsWithZero(t) /\ FitsWithZero(u)
  BY <1>1, <1>2 DEF KerInv
<1>4. u \in PathText /\ Len(u) <= PathLen
  BY <1>3, LenProperties, KernelAssumption DEF FitsWithZero, PathText
<1>5. /\ Carries(Padded(t), t) /\ ZerosFollow(Padded(t), t)
      /\ Carries(Resolved(t), t) /\ (Short(t) => ZerosFollow(Resolved(t), t))
  BY <1>3, PaddedCarries, ResolvedCarries
<1>6. /\ ExactMatch(Padded(t), Padded(u)) <=> (t = u)
      /\ ExactMatch(Resolved(t), Padded(u)) => (t = u)
      /\ t = u /\ Short(t) => ExactMatch(Resolved(t), Padded(u))
  BY <1>3, <1>4, <1>5, ExactIs
<1>7. /\ PrefixMatch(Padded(t), Padded(u)) <=> IsPrefix(u, t)
      /\ PrefixMatch(Resolved(t), Padded(u)) <=> IsPrefix(u, t)
  BY <1>3, <1>4, <1>5, PrefixIs
<1> QED
  BY <1>1, <1>2, <1>6, <1>7 DEF WordsCompareLikeText

LEMMA SocketKept == KerInv => SocketStaysClosed
<1> SUFFICES ASSUME Given(kerCase), kerOut = Hook(kerCase), kerCase.call.hook = "unix",
                    kerCase.sock = <<kerCase.call.path>>
             PROVE  Refuses <=> (kerCase.policy = NoCase \/ kerCase.policy.mode = "block")
  BY DEF KerInv, SocketStaysClosed
<1>1. PICK c : c = kerCase
  OBVIOUS
<1>2. Given(c) /\ kerOut = HandleUnixConnect(c) /\ c.sock = <<c.call.path>> /\ FitsWithZero(c.call.path)
  BY <1>1, HookIs DEF Given
<1>3. c.sock # <<>> /\ c.sock[1] = c.call.path
  BY <1>2
<1>4. c.call.path \in PathText /\ Len(c.call.path) <= PathLen
  BY <1>2, LenProperties, KernelAssumption DEF FitsWithZero, PathText
<1>5. ExactMatch(Padded(c.call.path), Padded(c.call.path))
  BY <1>2, <1>4, PaddedCarries, ExactIs
<1>6. PICK mode : mode = IF c.policy = NoCase THEN "block" ELSE c.policy.mode
  OBVIOUS
<1>7. kerOut = Emit(c.full, mode)
  BY <1>2, <1>3, <1>5, <1>6 DEF HandleUnixConnect
<1>8. mode \in {"block", "alert"}
  BY <1>2, <1>6, ModeIs DEF Given
<1>9. kerOut.verdict = "refused" <=> mode = "block"
  BY <1>7, <1>8, EmitIs
<1> QED
  BY <1>1, <1>6, <1>9 DEF Refuses

LEMMA NetworkKept == KerInv => NetworkRulesAreKept
<1> SUFFICES ASSUME Given(kerCase), kerOut = Hook(kerCase), kerCase.call.hook = "connect", kerCase.policy # NoCase,
                    kerCase.policy.default = "allow", kerCase.policy.port = 0,
                    \A r \in ToSet(kerCase.policy.nets) : r.bits = 0 \/ (r.bits = 2 /\ r.addr = Reverse(r.addr))
             PROVE  LET action == FilterNetwork(kerCase.policy, kerCase.call)
                    IN /\ Refuses <=> action = "block"
                       /\ kerOut.addr # kerCase.call.addr => action = "redirect"
                       /\ action = "redirect" /\ kerCase.proxy.port # 0
                            => kerOut.addr = kerCase.proxy.addr /\ kerOut.port = kerCase.proxy.port
  BY DEF KerInv, NetworkRulesAreKept, Asked
<1>1. PICK c : c = kerCase
  OBVIOUS
<1>2. PICK policy : policy = c.policy
  OBVIOUS
<1>3. PICK call : call = c.call
  OBVIOUS
<1>4. /\ kerOut = HandleConnect4(c) /\ Stored(policy) /\ policy # NoCase /\ policy.default = "allow" /\ policy.port = 0
      /\ \A r \in ToSet(policy.nets) : r.bits = 0 \/ (r.bits = 2 /\ r.addr = Reverse(r.addr))
      /\ call \in Calls /\ call.hook = "connect"
  BY <1>1, <1>2, <1>3, HookIs DEF Given
<1>5. PICK n : n = Len(policy.nets)
  OBVIOUS
<1>6. n \in Nat /\ \A i \in 1..n : policy.nets[i] \in NetworkRules /\ policy.nets[i] \in ToSet(policy.nets)
  BY <1>4, <1>5, ModeIs, LenProperties, ElementOfSeq DEF ToSet
<1> DEFINE Fits(r) == /\ r.operation = "connect" /\ (r.bits = 0 \/ r.addr = call.addr)
                      /\ r.port \in {0, call.port} /\ r.protocol \in {"*", call.protocol}
<1>7. ASSUME NEW i \in 1..n PROVE MatchNetworkRule(policy.nets[i], call) <=> Fits(policy.nets[i])
  <2>1. PICK r : r = policy.nets[i]
    OBVIOUS
  <2>2. /\ r \in NetworkRules /\ r.operation = "connect"
        /\ r.bits = 0 \/ (r.bits = 2 /\ r.addr = Reverse(r.addr))
    BY <2>1, <1>4, <1>6, ModeIs DEF NotStored
  <2>3. call.addr \in Address /\ r.addr \in Address
    BY <2>2, <1>4, HookOfCall DEF NetworkRules
  <2>4. (\A k \in 1..r.bits : UserIp4(call.addr)[k] = r.addr[k]) <=> (r.bits = 0 \/ r.addr = call.addr)
    <3>1. \A a \in Address : Len(a) = 2 /\ Reverse(a) = [k \in 1..2 |-> a[2 - k + 1]]
      <4> TAKE a \in Address
      <4>1. a \in Seq({0, 1}) /\ DOMAIN a = 1..2
        <5>1. a \in [1..2 -> {0, 1}] /\ 2 \in Nat
          BY DEF Address
        <5>2. \A S : \A l \in Nat : \A f \in [1..l -> S] : f \in Seq(S)
          BY SeqDef
        <5> QED
          BY <5>1, <5>2
      <4>2. PICK l : l = Len(a)
        OBVIOUS
      <4>3. l \in Nat /\ 1..l = 1..2
        BY <4>1, <4>2, LenProperties
      <4>4. l = 2
        BY <4>3
      <4> QED
        BY <4>2, <4>4 DEF Reverse
    <3>2. \A a \in Address : Reverse(a)[1] = a[2] /\ Reverse(a)[2] = a[1]
      BY <3>1
    <3>3. CASE r.bits = 0
      BY <3>3
    <3>4. CASE r.bits = 2 /\ r.addr = Reverse(r.addr)
      <4>1. r.addr[1] = r.addr[2]
        BY <3>2, <3>4, <2>3
      <4>2. (\A k \in 1..2 : UserIp4(call.addr)[k] = r.addr[k]) <=> call.addr[2] = r.addr[1] /\ call.addr[1] = r.addr[2]
        BY <3>2, <2>3 DEF UserIp4
      <4>3. r.addr = call.addr <=> r.addr[1] = call.addr[1] /\ r.addr[2] = call.addr[2]
        BY <2>3 DEF Address
      <4> QED
        BY <3>4, <4>1, <4>2, <4>3
    <3> QED
      BY <2>2, <3>3, <3>4
  <2> QED
    BY <2>1, <2>2, <2>4 DEF MatchNetworkRule
<1>8. PICK k : k = FirstOf(Fitting(policy, call))
  OBVIOUS
<1>9. k = FirstOf({i \in 1..n : Fits(policy.nets[i])})
  <2>1. Fitting(policy, call) = {i \in 1..n : Fits(policy.nets[i])}
    BY <1>5, <1>7 DEF Fitting
  <2> QED
    BY <1>8, <2>1
<1>10. FilterNetwork(policy, call) = IF k = 0 THEN "allow" ELSE policy.nets[k].action
  BY <1>5, <1>9 DEF FilterNetwork, SelectInSeq, FirstOf
<1>11. PICK action : action = FilterNetwork(policy, call)
  OBVIOUS
<1>12. action = CheckNetworkRules(policy, call) /\ action \in {"allow", "block", "redirect"}
  BY <1>4, <1>8, <1>10, <1>11, NetworkDecides
<1>13. HandleConnect4(c).verdict = "refused" <=> action = "block"
  BY <1>1, <1>2, <1>3, <1>4, <1>12, ConnectIs
<1>14. action # "redirect" => HandleConnect4(c).addr = call.addr
  BY <1>2, <1>3, <1>4, <1>12 DEF HandleConnect4, Reaches
<1>15. action = "redirect" /\ c.proxy.port # 0
         => HandleConnect4(c).addr = c.proxy.addr /\ HandleConnect4(c).port = c.proxy.port
  BY <1>2, <1>3, <1>4, <1>12 DEF HandleConnect4, Reaches
<1> QED
  BY <1>1, <1>2, <1>3, <1>4, <1>11, <1>13, <1>14, <1>15 DEF Refuses

\* The compiled rules of files name what the rules name.
LEMMA FilesNamed ==
  ASSUME NEW policy \in Policies, ~TooLarge(policy), \A r \in ToSet(policy.files) : Plain(r.path),
         NEW path, FitsWithZero(path), NEW k \in 1..Len(policy.files)
  PROVE  /\ policy.files[k] \in FileRules /\ policy.files[k] \in ToSet(policy.files)
         /\ PathMatches(FsPathRules(policy)[k].glob, Resolved(path)) => Names(policy.files[k].path, path)
         /\ Starred(policy.files[k].path) \/ Short(path) =>
              (Names(policy.files[k].path, path) => PathMatches(FsPathRules(policy)[k].glob, Resolved(path)))
         /\ GlobMatch(policy.files[k].path, path) <=> Names(policy.files[k].path, path)
         /\ FsPathRules(policy)[k].perms = policy.files[k].attrs
<1>1. policy.files \in Seq(FileRules)
  BY DEF Policies
<1>2. PICK r : r = policy.files[k]
  OBVIOUS
<1>3. r \in FileRules /\ r \in ToSet(policy.files) /\ DOMAIN policy.files = 1..Len(policy.files)
  BY <1>1, <1>2, LenProperties, ElementOfSeq DEF ToSet
<1>4. r.path \in PathText /\ Plain(r.path)
  BY <1>3 DEF FileRules
<1>5. FsPathRules(policy)[k] = [perms |-> r.attrs, glob |-> CompileGlob(r.path)]
  BY <1>2, <1>3 DEF FsPathRules
<1>6. FitsWithZero(r.path)
  <2>1. ~(Len(r.path) >= PathLen)
    BY <1>3 DEF TooLarge
  <2>2. Len(r.path) \in Nat /\ PathLen \in Nat
    BY <1>4, LenProperties, KernelAssumption DEF PathText
  <2> QED
    BY <1>4, <2>1, <2>2 DEF FitsWithZero
<1>7. FsPathRules(policy)[k].glob = CompileGlob(r.path) /\ FsPathRules(policy)[k].perms = r.attrs
  BY <1>5
<1>8. /\ PathMatches(CompileGlob(r.path), Resolved(path)) => Names(r.path, path)
      /\ Starred(r.path) \/ Short(path) => (Names(r.path, path) => PathMatches(CompileGlob(r.path), Resolved(path)))
  BY <1>4, <1>6, ResolvedCarries, CompiledNames
<1>9. GlobMatch(r.path, path) <=> Names(r.path, path)
  BY <1>4, GlobMatchIs DEF FitsWithZero
<1> QED
  BY <1>2, <1>3, <1>7, <1>8, <1>9

LEMMA FilesKept == KerInv => FileRulesAreKept
<1> SUFFICES ASSUME Given(kerCase), kerOut = Hook(kerCase), kerCase.call.hook = "open", kerCase.policy # NoCase,
                    kerCase.policy.mode = "block", kerCase.sock = <<>>,
                    kerCase.call.perms # {}, DPath(kerCase.call.path) # <<>>,
                    \A r \in ToSet(kerCase.policy.files) : Plain(r.path)
             PROVE  FileRulesAreKept
  BY DEF KerInv, FileRulesAreKept, Asked
<1>1. PICK c : c = kerCase
  OBVIOUS
<1>2. PICK policy : policy = c.policy
  OBVIOUS
<1>3. PICK path : path = c.call.path
  OBVIOUS
<1>4. PICK perms : perms = c.call.perms
  OBVIOUS
<1>5. /\ kerOut = HandleFileOpen(c) /\ Stored(policy) /\ policy # NoCase
      /\ policy.mode = "block" /\ c.sock = <<>> /\ perms # {} /\ DPath(path) # <<>>
      /\ \A r \in ToSet(policy.files) : Plain(r.path)
      /\ path \in PathText
  BY <1>1, <1>2, <1>3, <1>4, HookIs, HookOfCall DEF Given
<1>6. /\ policy \in Policies /\ ~TooLarge(policy) /\ FitsWithZero(path) /\ DPath(path)[1] = Resolved(path)
      /\ policy.default \in {"allow", "block"}
  BY <1>5, ModeIs DEF DPath, FitsWithZero, Policies
<1>7. PICK n : n = Len(policy.files)
  OBVIOUS
<1>8. n \in Nat /\ DOMAIN policy.files = 1..n /\ policy.files \in Seq(FileRules)
  BY <1>6, <1>7, LenProperties DEF Policies
<1>9. PICK rules : rules = FsPathRules(policy)
  OBVIOUS
<1>10. \A k \in 1..n : /\ PathMatches(rules[k].glob, Resolved(path)) => Names(policy.files[k].path, path)
                       /\ Starred(policy.files[k].path) \/ Short(path) =>
                            (Names(policy.files[k].path, path) => PathMatches(rules[k].glob, Resolved(path)))
                       /\ GlobMatch(policy.files[k].path, path) <=> Names(policy.files[k].path, path)
                       /\ rules[k].perms = policy.files[k].attrs
  BY <1>5, <1>6, <1>7, <1>9, FilesNamed
<1>11. Len(rules) = n
  <2>1. rules = [k \in 1..n |-> [perms |-> policy.files[k].attrs, glob |-> CompileGlob(policy.files[k].path)]]
    BY <1>8, <1>9 DEF FsPathRules
  <2> QED
    BY <2>1, <1>8
<1>12. PICK I : I = {k \in 1..n : Names(policy.files[k].path, path)}
  OBVIOUS
<1>25. PICK J : J = {k \in 1..n : PathMatches(rules[k].glob, Resolved(path))}
  OBVIOUS
<1>26. J \subseteq I
  BY <1>10, <1>12, <1>25
<1>27. Short(path) \/ (\A k \in I : Starred(policy.files[k].path)) => J = I
  BY <1>10, <1>12, <1>25
<1>13. PICK k : k = FirstOf(J)
  OBVIOUS
<1>14. k = 0 <=> J = {}
  BY <1>8, <1>25, <1>13, FirstIs
<1>15. k # 0 => k \in J
  BY <1>8, <1>25, <1>13, FirstIs
<1>16. CheckFsPathRules(policy, perms, Resolved(path)) =
         IF k = 0 THEN "unnamed" ELSE IF perms \subseteq rules[k].perms THEN "granted" ELSE "exceeds"
  <2>1. {i \in 1..Len(rules) : PathMatches(rules[i].glob, Resolved(path))} = J
    BY <1>11, <1>25
  <2>2. SelectInSeq(rules, LAMBDA r : PathMatches(r.glob, Resolved(path))) = FirstOf(J)
    BY <2>1 DEF SelectInSeq, FirstOf
  <2> QED
    BY <2>2, <1>9, <1>13 DEF CheckFsPathRules
<1>17. kerOut = ByRule(c, CheckFsPathRules(policy, perms, Resolved(path)))
  BY <1>2, <1>3, <1>4, <1>5, <1>6 DEF HandleFileOpen
<1>18. Refuses <=> /\ CheckFsPathRules(policy, perms, Resolved(path)) # "granted"
                   /\ CheckFsPathRules(policy, perms, Resolved(path)) = "unnamed" => policy.default # "allow"
  <2>1. Emit(c.full, "block").verdict = "refused" /\ Pass.verdict = "pass"
    BY EmitIs, PassIs
  <2> QED
    BY <2>1, <1>2, <1>5, <1>17 DEF ByRule, Refuses
<1>19. Refuses <=> IF policy.default = "allow" THEN k # 0 /\ ~(perms \subseteq policy.files[k].attrs)
                   ELSE k = 0 \/ ~(perms \subseteq policy.files[k].attrs)
  <2>1. k # 0 => rules[k].perms = policy.files[k].attrs
    BY <1>10, <1>15, <1>25
  <2> QED
    BY <2>1, <1>16, <1>18
<1>20. FilterFilesystem(policy, perms, path) <=> \E i \in I : ~(perms \subseteq policy.files[i].attrs)
  <2>1. FilterFilesystem(policy, perms, path)
          <=> \E r \in ToSet(policy.files) : Names(r.path, path) /\ ~(perms \subseteq r.attrs)
    BY DEF FilterFilesystem, Names, Starred
  <2>2. \A r : r \in ToSet(policy.files) <=> \E i \in 1..n : r = policy.files[i]
    BY <1>8 DEF ToSet
  <2> QED
    BY <2>1, <2>2, <1>12
<1>21. {i \in DOMAIN policy.files : GlobMatch(policy.files[i].path, path)} = I
  BY <1>8, <1>10, <1>12
<1>22. Cardinality(I) <= 1 => \A i, j \in I : i = j
  <2>1. IsFiniteSet(I)
    <3>1. IsFiniteSet(1..n) /\ I \subseteq 1..n
      BY <1>8, <1>12, FS_Interval
    <3> QED
      BY <3>1, FS_Subset
  <2>2. SUFFICES ASSUME Cardinality(I) <= 1, NEW i \in I, NEW j \in I, i # j PROVE FALSE
    OBVIOUS
  <2>3. PICK S : S = {i}
    OBVIOUS
  <2>4. Cardinality(S) = 1 /\ IsFiniteSet(S) /\ j \notin S
    BY <2>2, <2>3, FS_Singleton
  <2>5. PICK T : T = S \cup {j}
    OBVIOUS
  <2>6. Cardinality(T) = Cardinality(S) + 1
    BY <2>4, <2>5, FS_AddElement
  <2>7. T \subseteq I
    BY <2>2, <2>3, <2>5
  <2>8. Cardinality(T) <= Cardinality(I)
    BY <2>1, <2>7, FS_Subset
  <2>9. PICK x : x = Cardinality(I)
    OBVIOUS
  <2>10. PICK y : y = Cardinality(T)
    OBVIOUS
  <2>11. x \in Nat /\ x <= 1 /\ y <= x
    BY <2>1, <2>2, <2>8, <2>9, <2>10, FS_CardinalityType
  <2>12. y = 2
    BY <2>4, <2>6, <2>10
  <2> QED
    BY <2>11, <2>12
<1>23. ASSUME policy.default = "allow"
       PROVE  /\ Refuses => FilterFilesystem(policy, perms, path)
              /\ /\ Cardinality(I) <= 1 /\ (Short(path) \/ \A i \in I : Starred(policy.files[i].path))
                 /\ FilterFilesystem(policy, perms, path)
                 => Refuses
  <2>1. Refuses => FilterFilesystem(policy, perms, path)
    BY <1>15, <1>19, <1>20, <1>23, <1>26
  <2>2. ASSUME Cardinality(I) <= 1, J = I, FilterFilesystem(policy, perms, path) PROVE Refuses
    BY <2>2, <1>14, <1>15, <1>19, <1>20, <1>22, <1>23
  <2> QED
    BY <2>1, <2>2, <1>27
<1>24. ASSUME policy.default = "block", ~Refuses PROVE \E i \in I : perms \subseteq policy.files[i].attrs
  BY <1>15, <1>19, <1>24, <1>26
<1> QED
  BY <1>1, <1>2, <1>3, <1>4, <1>6, <1>21, <1>23, <1>24 DEF FileRulesAreKept

\* A star by itself names every text.
LEMMA StarNamesAll ==
  ASSUME NEW t \in PathText
  PROVE  GlobMatch(<<"*">>, t)
<1>1. PICK p : p = <<"*">>
  OBVIOUS
<1>2. Len(p) = 1 /\ p[1] = "*"
  BY <1>1
<1>3. PICK m : m = Len(t)
  OBVIOUS
<1>4. m \in Nat
  BY <1>3, LenProperties DEF PathText
<1> DEFINE g == [i \in 0..1 |-> IF i = 0 THEN {0} ELSE 0..m]
<1>5. Reaching(p, t, g)
  <2> DEFINE F(i) == IF i = 0 THEN {0}
                     ELSE IF p[i] = "*" THEN {k \in 0..m : \E j \in g[i - 1] : j <= k}
                     ELSE {k \in 1..m : t[k] = p[i] /\ k - 1 \in g[i - 1]}
  <2>1. F(0) = g[0]
    OBVIOUS
  <2>2. F(1) = g[1]
    <3>1. g[0] = {0} /\ 1 - 1 = 0
      OBVIOUS
    <3>2. F(1) = {k \in 0..m : \E j \in g[0] : j <= k}
      BY <1>2, <3>1
    <3>3. g[1] = 0..m
      OBVIOUS
    <3> HIDE DEF g, F
    <3>4. \A k \in 0..m : 0 <= k
      BY <1>4
    <3>5. \A k \in 0..m : \E j \in g[0] : j <= k
      BY <3>1, <3>4
    <3> QED
      BY <3>2, <3>3, <3>5
  <2>3. g = [i \in 0..1 |-> F(i)]
    BY <2>1, <2>2
  <2> QED
    BY <2>3, <1>2, <1>3 DEF Reaching
<1>6. PICK r : Reaching(p, t, r) /\ (GlobMatch(p, t) <=> m \in r[1])
  <2>1. \E x : Reaching(p, t, x)
    BY <1>5
  <2> QED
    BY <2>1, <1>2, <1>3, GlobUnfolds
<1>7. r[1] = g[1]
  BY <1>2, <1>5, <1>6, ReachesOnce
<1>8. m \in g[1]
  BY <1>4
<1> QED
  BY <1>1, <1>6, <1>7, <1>8

LEMMA CapabilitiesKept == KerInv => CapabilityRulesAreKept
<1> SUFFICES ASSUME Given(kerCase), kerOut = Hook(kerCase), kerCase.call.hook = "capable", kerCase.policy # NoCase,
                    kerCase.policy.default = "allow", kerCase.policy.mode = "block", Whole(kerCase.call.exe),
                    \A r \in ToSet(kerCase.policy.caps) : HasPath(r) => Plain(r.path[1])
             PROVE  LET exe == GetSource(kerCase.call.exe)[1]
                        refused == kerCase.call.cap \in Caps /\ ShouldBlockPath(kerCase.policy, kerCase.call.cap, exe)
                    IN /\ Refuses <=> refused
                       /\ (\A r \in ToSet(kerCase.policy.caps) : r.path = <<>> \/ r.path[1] # <<>>) =>
                            (Refuses <=> kerCase.call.cap \in Caps /\ FilterCapability(kerCase.policy, kerCase.call.cap, exe))
  BY DEF KerInv, CapabilityRulesAreKept, Asked, Listed
<1>1. PICK c : c = kerCase
  OBVIOUS
<1>2. PICK policy : policy = c.policy
  OBVIOUS
<1>3. PICK cap : cap = c.call.cap
  OBVIOUS
<1>4. /\ kerOut = HandleCapable(c) /\ Stored(policy) /\ policy # NoCase
      /\ policy.default = "allow" /\ policy.mode = "block"
      /\ c.call.exe \in Seq(PathText) /\ GetSource(c.call.exe) # <<>>
  BY <1>1, <1>2, HookIs, HookOfCall DEF Given, Whole
<1>5. \A r \in ToSet(policy.caps) : HasPath(r) => Plain(r.path[1])
  BY <1>1, <1>2
<1>6. PICK exe : GetSource(c.call.exe) = <<exe>> /\ FitsWithZero(exe)
  BY <1>4, SourceFits
<1>7. GetSource(c.call.exe)[1] = exe
  BY <1>6
<1>8. PICK rs : rs = ToSet(policy.caps)
  OBVIOUS
<1>9. \A r \in rs : r \in CapabilityRules /\ (r.path # <<>> => r.path[1] \in PathText)
  <2>1. policy.caps \in Seq(CapabilityRules)
    BY <1>4, ModeIs
  <2>2. \A r \in rs : r \in CapabilityRules
    BY <2>1, <1>8, LenProperties, ElementOfSeq DEF ToSet
  <2>3. \A q \in Seq(PathText) : q # <<>> => q[1] \in PathText
    <3> SUFFICES ASSUME NEW q \in Seq(PathText), q # <<>> PROVE q[1] \in PathText
      OBVIOUS
    <3>1. Len(q) \in Nat /\ Len(q) # 0
      BY LenProperties, EmptySeq
    <3>2. 1 \in 1..Len(q)
      BY <3>1
    <3> QED
      BY <3>2, ElementOfSeq
  <2> QED
    BY <2>2, <2>3 DEF CapabilityRules
<1>10. ASSUME NEW r \in rs, HasPath(r)
       PROVE  PathMatches(CompileGlob(r.path[1]), Padded(exe)) <=> GlobMatch(r.path[1], exe)
  <2>1. r.path[1] \in PathText /\ Plain(r.path[1])
    BY <1>5, <1>8, <1>9, <1>10 DEF HasPath
  <2>2. r.path[1] \in CapPatterns(policy)
    BY <1>8, <1>10 DEF CapPatterns
  <2>3. ~(Len(r.path[1]) >= PathLen)
    BY <2>2, <1>4, ModeIs DEF TooLarge
  <2>4. FitsWithZero(r.path[1])
    <3>1. Len(r.path[1]) \in Nat /\ PathLen \in Nat
      BY <2>1, LenProperties, KernelAssumption DEF PathText
    <3> QED
      BY <2>1, <2>3, <3>1 DEF FitsWithZero
  <2>5. PathMatches(CompileGlob(r.path[1]), Padded(exe)) <=> Names(r.path[1], exe)
    BY <2>1, <2>4, <1>6, PaddedCarries, CompiledNames
  <2>6. GlobMatch(r.path[1], exe) <=> Names(r.path[1], exe)
    BY <2>1, <1>6, GlobMatchIs DEF FitsWithZero
  <2> QED
    BY <2>5, <2>6
<1>11. CheckPathRules(policy, c.call)
         <=> \E r \in rs : HasPath(r) /\ cap \in r.caps \cap Caps /\ GlobMatch(r.path[1], exe)
  <2>1. CheckPathRules(policy, c.call)
          <=> \E p \in CapPatterns(policy) : PathMatches(CompileGlob(p), Padded(exe)) /\ cap \in PathMask(policy, p)
    <3>1. CheckPathRules(policy, c.call) <=> \E x \in CapPathRules(policy) : PathMatches(x.glob, Padded(exe)) /\ cap \in x.mask
      BY <1>3, <1>4, <1>6, <1>7 DEF CheckPathRules
    <3>2. \A x \in CapPathRules(policy) :
            \E p \in CapPatterns(policy) : x.mask = PathMask(policy, p) /\ x.glob = CompileGlob(p)
      BY DEF CapPathRules
    <3>3. \A p \in CapPatterns(policy) :
            \E x \in CapPathRules(policy) : x.mask = PathMask(policy, p) /\ x.glob = CompileGlob(p)
      <4> TAKE p \in CapPatterns(policy)
      <4>1. [mask |-> PathMask(policy, p), glob |-> CompileGlob(p)] \in CapPathRules(policy)
        BY DEF CapPathRules
      <4> QED
        BY <4>1
    <3> QED
      BY <3>1, <3>2, <3>3
  <2>2. \A p : p \in CapPatterns(policy) <=> \E r \in rs : HasPath(r) /\ p = r.path[1]
    BY <1>8 DEF CapPatterns
  <2>3. \A p : cap \in PathMask(policy, p) <=> \E r \in rs : HasPath(r) /\ r.path[1] = p /\ cap \in r.caps \cap Caps
    BY <1>8 DEF PathMask
  <2>4. CheckPathRules(policy, c.call)
          <=> \E r \in rs : HasPath(r) /\ cap \in r.caps \cap Caps /\ PathMatches(CompileGlob(r.path[1]), Padded(exe))
    BY <2>1, <2>2, <2>3
  <2> QED
    BY <2>4, <1>10
<1>12. cap \in CapMask(policy) <=> \E r \in rs : ~HasPath(r) /\ cap \in r.caps \cap Caps
  BY <1>8 DEF CapMask
<1>13. CheckPathRules(policy, c.call) => HasPathRules(policy)
  BY <1>8, <1>11 DEF HasPathRules
<1>14. Refuses <=> cap \in CapMask(policy) \/ CheckPathRules(policy, c.call)
  <2>1. Emit(c.full, "block").verdict = "refused" /\ Pass.verdict = "pass"
    BY EmitIs, PassIs
  <2> QED
    BY <2>1, <1>2, <1>3, <1>4, <1>13 DEF HandleCapable, Refuses
<1>15. Refuses <=> \E r \in rs : cap \in r.caps /\ cap \in Caps /\ (~HasPath(r) \/ GlobMatch(r.path[1], exe))
  BY <1>11, <1>12, <1>14
<1>16. Refuses <=> cap \in Caps /\ ShouldBlockPath(policy, cap, exe)
  BY <1>8, <1>15 DEF ShouldBlockPath
<1>17. ASSUME \A r \in rs : r.path = <<>> \/ r.path[1] # <<>>
       PROVE  Refuses <=> cap \in Caps /\ FilterCapability(policy, cap, exe)
  <2>1. GlobMatch(<<"*">>, exe)
    BY <1>6, StarNamesAll DEF FitsWithZero
  <2>2. \A r \in rs : (~HasPath(r) \/ GlobMatch(r.path[1], exe)) <=> (r.path = <<>> \/ GlobMatch(r.path[1], exe))
    BY <2>1, <1>17 DEF HasPath
  <2> QED
    BY <2>2, <1>8, <1>15 DEF FilterCapability
<1> QED
  BY <1>1, <1>2, <1>3, <1>7, <1>8, <1>16, <1>17

\* For any policies, calls and texts, buffers of any whole number of words, tables of any size: the
\* hooks refuse what the rules of the policy refuse, within the limits the parts of the property
\* name: plain patterns, policies that block, addresses that read alike from both ends, and, for a
\* file named without a star, paths short enough that bpf_d_path leaves nothing behind them
\* (security/src/bpf, security/src/ebpf/mod.rs).
THEOREM HooksKeepRules == KernelSpec => []KernelKeepsRules
<1>1. KernelSpec => []KerInv
  BY KernelStarts, KernelKeeps, PTL DEF KernelSpec
<1>2. KerInv => KernelKeepsRules
  BY KernelTyped, WordsKept, CapabilitiesKept, FilesKept, NetworkKept, SocketKept DEF KernelKeepsRules
<1> QED
  BY <1>1, <1>2, PTL

================================================================================
