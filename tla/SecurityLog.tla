----------------------------- MODULE SecurityLog -----------------------------
(***************************************************************************)
(* Events of the eBPF programs on their way into security.log: a ring for  *)
(* each loaded object (bpf/common.bpf.h), the controller's poller          *)
(* (security/src/policy.rs), and the lines that it and other threads write *)
(* under a file lock (log/src/file.rs).                                    *)
(***************************************************************************)
EXTENDS Integers, Sequences, FiniteSets, SequencesExt

CONSTANTS
  Rings,         \* the objects whose programs report, in the order they are loaded
  RingRoom,      \* events a ring holds
  MaxEvents,     \* events a ring's programs report
  LogWriters,    \* other threads that write a log entry each
  Poller

VARIABLES
  evtCount, evtRing,     \* events reported so far and the ring of each object
  evtObject,             \* the object whose ring is drained
  evtTodo,               \* what the poller has drained and not yet written
  evtLock,               \* who holds the file's lock
  evtWriter,             \* how far each writer is with its line
  evtFile                \* what was appended: entries and ends of line

evtVars == <<evtCount, evtRing, evtObject, evtTodo, evtLock, evtWriter, evtFile>>

Writers == LogWriters \cup {Poller}
RingSet == ToSet(Rings)
Event(ring, n) == [by |-> ring, n |-> n]
EndOfLine == [by |-> "end", n |-> 0]

ASSUME SecurityAssumption ==
  /\ RingRoom \in Nat \ {0} /\ MaxEvents \in Nat /\ Rings \in Seq(RingSet)
  /\ Poller \notin LogWriters /\ RingSet \cap LogWriters = {} /\ "end" \notin RingSet \cup LogWriters

LogInit ==
  /\ evtCount = [r \in RingSet |-> 0] /\ evtRing = [r \in RingSet |-> <<>>] /\ evtObject = 1
  /\ evtTodo = <<>> /\ evtLock = {}
  /\ evtWriter = [w \in Writers |-> "rest"] /\ evtFile = <<>>

WriterAt(w, pc) == evtWriter' = [evtWriter EXCEPT ![w] = pc]

\* bpf_ringbuf_reserve fails on a full ring: the event is lost.
EmitEvent(r) ==
  /\ evtCount[r] < MaxEvents
  /\ evtCount' = [evtCount EXCEPT ![r] = @ + 1]
  /\ evtRing' = IF Len(evtRing[r]) = RingRoom THEN evtRing
                ELSE [evtRing EXCEPT ![r] = Append(@, Event(r, evtCount[r] + 1))]
  /\ UNCHANGED <<evtObject, evtTodo, evtLock, evtWriter, evtFile>>

\* The rings are drained one object after the other, while the programs go on reporting.
PollEvents ==
  /\ evtWriter[Poller] = "rest" /\ Rings # <<>>
  /\ WriterAt(Poller, "drain") /\ evtObject' = 1
  /\ UNCHANGED <<evtCount, evtRing, evtTodo, evtLock, evtFile>>

NextItem ==
  LET r == Rings[evtObject] IN
    /\ evtWriter[Poller] = "drain" /\ evtRing[r] # <<>>
    /\ evtTodo' = Append(evtTodo, Head(evtRing[r]))
    /\ evtRing' = [evtRing EXCEPT ![r] = Tail(@)]
    /\ UNCHANGED <<evtCount, evtObject, evtLock, evtWriter, evtFile>>

NextObject ==
  /\ evtWriter[Poller] = "drain" /\ evtRing[Rings[evtObject]] = <<>>
  /\ IF evtObject < Len(Rings)
     THEN evtObject' = evtObject + 1 /\ UNCHANGED evtWriter
     ELSE WriterAt(Poller, IF evtTodo = <<>> THEN "rest" ELSE "open") /\ UNCHANGED evtObject
  /\ UNCHANGED <<evtCount, evtRing, evtTodo, evtLock, evtFile>>

\* Another thread has a line to write.
WriterStarts(w) ==
  /\ w # Poller /\ evtWriter[w] = "rest"
  /\ evtWriter' = [evtWriter EXCEPT ![w] = "open"]
  /\ UNCHANGED <<evtCount, evtRing, evtObject, evtTodo, evtLock, evtFile>>

-----------------------------------------------------------------------------
\* write_line.  Each call opens the file anew, so that the lock keeps threads apart as well.
LogEntry(w) == IF w = Poller THEN Head(evtTodo) ELSE Event(w, 0)

\* Mutant: a lock that is not to be had is done without.
TakeLockOrNot(w) ==
  /\ evtWriter[w] = "open"
  /\ evtLock' = evtLock \cup {w} /\ WriterAt(w, "locked")
  /\ UNCHANGED <<evtCount, evtRing, evtObject, evtTodo, evtFile>>

TakeLock(w) ==
  /\ evtWriter[w] = "open" /\ evtLock = {}
  /\ evtLock' = {w} /\ WriterAt(w, "locked")
  /\ UNCHANGED <<evtCount, evtRing, evtObject, evtTodo, evtFile>>

\* Formatting writes the entry and the end of the line one after the other.
WriteEntry(w) ==
  /\ evtWriter[w] = "locked"
  /\ evtFile' = Append(evtFile, LogEntry(w)) /\ WriterAt(w, "written")
  /\ UNCHANGED <<evtCount, evtRing, evtObject, evtTodo, evtLock>>

WriteEnd(w) ==
  /\ evtWriter[w] = "written"
  /\ evtFile' = Append(evtFile, EndOfLine) /\ WriterAt(w, "ended")
  /\ UNCHANGED <<evtCount, evtRing, evtObject, evtTodo, evtLock>>

\* process_events goes on with the next event; a thread is done.
Unlock(w) ==
  /\ evtWriter[w] = "ended"
  /\ evtLock' = {}
  /\ evtTodo' = IF w = Poller THEN Tail(evtTodo) ELSE evtTodo
  /\ WriterAt(w, IF w # Poller THEN "done" ELSE IF Len(evtTodo) = 1 THEN "rest" ELSE "open")
  /\ UNCHANGED <<evtCount, evtRing, evtObject, evtFile>>

\* The directory, the file, the lock or a write fails.  The poller gives up all that it drained.
WriteFails(w) ==
  /\ evtWriter[w] \in {"open", "locked", "written"}
  /\ evtLock' = evtLock \ {w}
  /\ evtTodo' = IF w = Poller THEN <<>> ELSE evtTodo
  /\ WriterAt(w, IF w = Poller THEN "rest" ELSE "done")
  /\ UNCHANGED <<evtCount, evtRing, evtObject, evtFile>>

LogNext ==
  \/ \E r \in RingSet : EmitEvent(r)
  \/ PollEvents \/ NextItem \/ NextObject
  \/ \E w \in Writers : WriterStarts(w) \/ TakeLock(w) \/ WriteEntry(w) \/ WriteEnd(w) \/ Unlock(w) \/ WriteFails(w)

LogSpec == LogInit /\ [][LogNext]_evtVars

-----------------------------------------------------------------------------
\* Every variable keeps its type, the lock has one holder (flock), and a line is written for a
\* drained event.
LogTypeOK ==
  /\ \A r \in RingSet : evtCount[r] \in 0..MaxEvents /\ Len(evtRing[r]) <= RingRoom
  /\ evtWriter \in [Writers -> {"rest", "drain", "open", "locked", "written", "ended", "done"}]
  /\ evtLock \subseteq Writers /\ Cardinality(evtLock) <= 1
  /\ \A w \in Writers : w \in evtLock <=> evtWriter[w] \in {"locked", "written", "ended"}
  /\ evtWriter[Poller] = "rest" => evtTodo = <<>>
  /\ evtTodo = <<>> => evtWriter[Poller] \in {"rest", "drain"}

\* Of each object's events none is written twice, and those that are written are written in the
\* order they happened: whatever is lost to a full ring or a failed write
\* (poll_events, process_events).
EventsKeepTheirOrder ==
  \A j, k \in DOMAIN evtFile :
    j < k /\ evtFile[j].by = evtFile[k].by /\ evtFile[j].by \in RingSet => evtFile[j].n < evtFile[k].n

\* The lines of two threads never mix: between an entry and the end of its line there is nothing,
\* and an entry without one is the work of a thread that failed (write_line).
LinesAreWhole ==
  \A k \in DOMAIN evtFile : evtFile[k] = EndOfLine => k > 1 /\ evtFile[k - 1] # EndOfLine

\* The log tells events in the order of their rings, a line for each (policy.rs, log file.rs).
LogIsFaithful == LogTypeOK /\ EventsKeepTheirOrder /\ LinesAreWhole
=============================================================================
