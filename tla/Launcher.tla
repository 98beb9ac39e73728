------------------------------- MODULE Launcher -------------------------------
(***************************************************************************)
(* The launcher of confidential virtual machines (launcher/src: main.rs,   *)
(* cli.rs, dispatcher.rs, qemu.rs, utils.rs): how a command line becomes   *)
(* the command of QEMU and a table of mounts for the guest, and the        *)
(* processes it starts on the way.                                         *)
(*                                                                         *)
(* A text is a sequence of characters, each as coarse as its use allows; a *)
(* value is the sequence of texts between its colons.  A word of a command *)
(* line has a stem (the option its text begins with, "help", "other" for   *)
(* any other --option, "word"), what follows an equals sign, if there is   *)
(* one, and its whole text as a value.                                     *)
(***************************************************************************)
EXTENDS Integers, Sequences, FiniteSets, SequencesExt, FiniteSetsExt

CONSTANTS
  LauLines,      \* command lines that may be tried
  LauNumbers,    \* [text -> the number it is]
  LauIps,        \* texts that are IPv4 addresses
  LauDirs,       \* texts that name a directory when they are checked
  LauFiles,      \* values that name something that exists
  LauConfigs,    \* [value -> <<the configuration in that file>>, or <<>> if it does not parse]
  LauDefaults,   \* [mem, smp, cid]
  LauTags,       \* texts whose tags are compared
  U16, U32, U64  \* the numbers of values of u16, u32 and u64

\* What an escaped dash and an escaped dot become: no single character.
Escapes == {"x2d", "x2e"}

\* What the code takes by default is a machine (dispatcher.rs).
ASSUME LauAssumption ==
  /\ U16 \in Nat /\ U32 \in Nat /\ U64 \in Nat /\ U16 <= U32 /\ U32 <= U64
  /\ \A t \in DOMAIN LauNumbers : LauNumbers[t] \in Nat
  /\ LauDefaults.mem \in 1 .. U32 - 1 /\ LauDefaults.smp \in 1 .. U16 - 1 /\ LauDefaults.cid \in 3 .. U32 - 1
  /\ \A name \in DOMAIN LauConfigs : \A k \in DOMAIN LauConfigs[name] : LauConfigs[name][k].memory \in Nat
  /\ \A line \in LauLines : line \in Seq(ToSet(line))
  /\ LauTags \subseteq Seq(STRING \ Escapes)

VARIABLES
  lauAt,       \* the step the launcher is about to take
  lauLine,     \* its command line
  lauRun,      \* RunArgs: [option -> what was given, in order; at most one thing for a scalar]
  lauTools,    \* virtiofsd was found
  lauConf,     \* RunConfig, with smp
  lauShares,   \* -fsdev and -device arguments for 9p: [fsdevs, devices]
  lauFstab,    \* the lines of the file fstab in the run directory
  lauHelpers,  \* processes of virtiofsd, in the order they were started
  lauQemu, lauStderr,  \* QEMU and the pipe of its errors
  lauCode      \* the launcher's exit status

lauVars == <<lauAt, lauLine, lauRun, lauTools, lauConf, lauShares, lauFstab, lauHelpers, lauQemu, lauStderr, lauCode>>
lauKids == <<lauHelpers, lauQemu, lauStderr>>
lauPlan == <<lauRun, lauTools, lauConf, lauShares, lauFstab>>

Scalars == {"runtime", "kernel", "payload", "app-conf", "mem", "smp", "cid"}
Lists == {"volume", "virtiofs", "port-forward"}
LauOptions == Scalars \cup Lists

NothingGiven == [o \in LauOptions |-> <<>>]
NoConf == [image |-> <<>>, payload |-> <<>>, certs |-> <<>>, mem |-> 0, smp |-> 0, cid |-> 0, extra |-> <<>>]
NoShares == [fsdevs |-> {}, devices |-> {}]

LaunchInit ==
  /\ lauAt = "parse" /\ lauLine = <<>> /\ lauRun = NothingGiven /\ lauTools = FALSE /\ lauConf = NoConf
  /\ lauShares = NoShares /\ lauFstab = <<>>
  /\ lauHelpers = <<>> /\ lauQemu = "none" /\ lauStderr = "none" /\ lauCode = -1

-----------------------------------------------------------------------------
(* cli.rs: what an option makes of a value; <<>> where it is refused.      *)

Absolute(text) == text # <<>> /\ text[1] = "/"
Parts(v) == SelectSeq(v, LAMBDA text : text # <<>>)
ValidateNonEmpty(v) == IF v = << <<>> >> THEN <<>> ELSE <<v>>
Numeric(text, low, width) ==
  IF text \in DOMAIN LauNumbers /\ LauNumbers[text] \in low .. width - 1 THEN <<LauNumbers[text]>> ELSE <<>>
ValidateNumber(v, low, width) == IF Len(v) = 1 THEN Numeric(v[1], low, width) ELSE <<>>

ParseVirtiofs(v) ==
  LET p == Parts(v) IN IF Len(p) = 2 THEN <<[host |-> p[1], guest |-> p[2]]>> ELSE <<>>

ParsePortForward(v) ==
  LET p == Parts(v)
      ports == IF Len(p) \in {2, 3} THEN Numeric(p[Len(p) - 1], 0, U16) \o Numeric(p[Len(p)], 0, U16) ELSE <<>>
  IN IF Len(ports) = 2 /\ (Len(p) = 3 => p[1] \in LauIps)
     THEN <<[ip |-> IF Len(p) = 3 THEN p[1] ELSE <<"any">>, host |-> ports[1], guest |-> ports[2]]>>
     ELSE <<>>

ParseVolume(v) ==
  LET p == Parts(v)
  IN IF Len(p) = 2 /\ Absolute(p[1]) /\ p[1] \in LauDirs /\ Absolute(p[2])
     THEN <<[host |-> p[1], guest |-> p[2]]>> ELSE <<>>

Handled(o, v) ==
  CASE o \in {"runtime", "kernel", "payload", "app-conf"} -> ValidateNonEmpty(v)
    [] o = "mem" -> ValidateNumber(v, 1, U64)
    [] o = "smp" -> ValidateNumber(v, 1, U16)
    [] o = "cid" -> ValidateNumber(v, 3, U32)
    [] o = "virtiofs" -> ParseVirtiofs(v)
    [] o = "port-forward" -> ParsePortForward(v)
    [] o = "volume" -> ParseVolume(v)

HandleOption(st, o, v) ==
  LET h == Handled(o, v) IN
  IF h = <<>> THEN [st EXCEPT !.bad = TRUE, !.open = ""]
  ELSE [st EXCEPT !.open = "", !.run[o] = IF o \in Lists THEN @ \o h ELSE h]

\* The next word: the value of the option before it, whatever it looks like, or an option.
TakeWord(st, w) ==
  CASE st.bad -> st
    [] ~st.bad /\ st.open # "" -> HandleOption(st, st.open, w.text)
    [] ~st.bad /\ st.open = "" /\ w.stem \in LauOptions ->
         IF w.inline # <<>> THEN HandleOption(st, w.stem, w.inline[1]) ELSE [st EXCEPT !.open = w.stem]
    [] ~st.bad /\ st.open = "" /\ w.stem \in {"help", "other"} -> st
    [] OTHER -> [st EXCEPT !.bad = TRUE]

\* One word after the other.
ParseRunArgs(words) ==
  LET st[k \in 0 .. Len(words)] ==
        IF k = 0 THEN [run |-> NothingGiven, open |-> "", bad |-> FALSE] ELSE TakeWord(st[k - 1], words[k])
      end == st[Len(words)]
  IN [end EXCEPT !.bad = @ \/ end.open # ""]

AsksForHelp(line) ==
  \/ line = <<>>
  \/ line[1].stem = "help" /\ Len(line) = 1
  \/ line[1].stem = "help subcommand"
  \/ line[1].stem = "run" /\ Len(line) > 1 /\ line[2].stem = "help"

-----------------------------------------------------------------------------
\* Children are started with kill_on_drop: the launcher's own end is theirs.
Ends(code) ==
  /\ lauAt' = "ended" /\ lauCode' = code
  /\ lauHelpers' = [k \in DOMAIN lauHelpers |-> FALSE]
  /\ lauQemu' = IF lauQemu = "running" THEN "killed" ELSE lauQemu
  /\ UNCHANGED <<lauLine, lauPlan, lauStderr>>

\* main.rs, cli.rs parse_args: help is a success, a refused line is not.
ParseArgs ==
  /\ lauAt = "parse"
  /\ \E line \in LauLines :
       /\ lauLine' = line
       /\ IF AsksForHelp(line) THEN lauAt' = "ended" /\ lauCode' = 0 /\ UNCHANGED lauRun
          ELSE LET st == ParseRunArgs(Tail(line)) IN
               IF line[1].stem # "run" \/ st.bad THEN lauAt' = "ended" /\ lauCode' = 1 /\ UNCHANGED lauRun
               ELSE /\ lauRun' = st.run /\ lauCode' = lauCode
                    /\ lauAt' = "tools"
  /\ UNCHANGED <<lauTools, lauConf, lauShares, lauFstab, lauKids>>

\* dispatcher.rs run, utils.rs find_required_tools: QEMU must be there, virtiofsd may be; with it,
\* unshare must work.
FindRequiredTools ==
  /\ lauAt = "tools"
  /\ \/ /\ lauRun["runtime"] \in {<<>>, << << <<"qemu">> >> >>}
        /\ lauAt' = "options" /\ lauTools' \in BOOLEAN
        /\ UNCHANGED <<lauLine, lauRun, lauConf, lauShares, lauFstab, lauKids, lauCode>>
     \/ Ends(1)

Last1(s, default) == IF s = <<>> THEN default ELSE s[1]

\* dispatcher.rs: the file alone says what the machine is, but for its processors and shares;
\* memory is cut to 32 bits from either source.
RunConfigs(run) ==
  LET smp == Last1(run["smp"], LauDefaults.smp)
      ofFile(c) == [image |-> c.image, payload |-> c.payload, certs |-> <<c.certdir>>, mem |-> c.memory % U32,
                    smp |-> smp, cid |-> c.cid, extra |-> c.extra]
  IN IF run["app-conf"] # <<>>
     THEN LET name == run["app-conf"][1] IN
          IF name \notin LauFiles \/ name \notin DOMAIN LauConfigs THEN {}
          ELSE {ofFile(LauConfigs[name][k]) : k \in {n \in DOMAIN LauConfigs[name] :
                  LET c == LauConfigs[name][n] IN {c.image, c.payload} \subseteq LauFiles /\ c.certdir \in LauDirs}}
     ELSE IF run["payload"] # <<>> /\ run["kernel"] # <<>> /\ {run["payload"][1], run["kernel"][1]} \subseteq LauFiles
     THEN {[image |-> run["kernel"][1], payload |-> run["payload"][1], certs |-> <<>>,
            mem |-> Last1(run["mem"], LauDefaults.mem) % U32, smp |-> smp,
            cid |-> Last1(run["cid"], LauDefaults.cid), extra |-> <<>>]}
     ELSE {}

\* What is missing or wrong is answered with the help text, and with success.
AnalyzeRequiredArgs ==
  /\ lauAt = "options"
  /\ \/ RunConfigs(lauRun) = {} /\ Ends(0)
     \/ /\ lauConf' \in RunConfigs(lauRun) /\ lauAt' = "shares"
        /\ UNCHANGED <<lauLine, lauRun, lauTools, lauShares, lauFstab, lauKids, lauCode>>

-----------------------------------------------------------------------------
(* qemu.rs: from here on a failure is logged, and the exit status is 0.    *)

RunDir == <<"run dir">>
UserTag(k) == <<"usrshare", k>>

\* Mutant: the directories of the user are numbered from 1.
SharesFromOne(certs, volumes) ==
  [fsdevs |-> {[id |-> 0, path |-> RunDir]} \cup {[id |-> 1, path |-> certs[k]] : k \in DOMAIN certs}
                \cup {[id |-> k, path |-> volumes[k].host] : k \in DOMAIN volumes},
   devices |-> {[id |-> 0, tag |-> <<"ccashare", 0>>]} \cup {[id |-> 1, tag |-> <<"certshare", 0>>] : k \in DOMAIN certs}
                \cup {[id |-> k, tag |-> UserTag(k - 1)] : k \in DOMAIN volumes}]

Virtio9p(certs, volumes) ==
  [fsdevs |-> {[id |-> 0, path |-> RunDir]} \cup {[id |-> 1, path |-> certs[k]] : k \in DOMAIN certs}
                \cup {[id |-> k + 1, path |-> volumes[k].host] : k \in DOMAIN volumes},
   devices |-> {[id |-> 0, tag |-> <<"ccashare", 0>>]} \cup {[id |-> 1, tag |-> <<"certshare", 0>>] : k \in DOMAIN certs}
                \cup {[id |-> k + 1, tag |-> UserTag(k - 1)] : k \in DOMAIN volumes}]

\* The run directory, the directories of certificates and of the user (which may have gone since
\* they were checked), and the table of mounts.  Without a runtime to do it in, main() fails.
Configure9p ==
  /\ lauAt = "shares"
  /\ \/ Ends(0) \/ Ends(1)
     \/ /\ lauShares' = Virtio9p(lauConf.certs, lauRun["volume"])
        /\ lauFstab' = [k \in DOMAIN lauRun["volume"] |->
                          [tag |-> UserTag(k - 1), guest |-> lauRun["volume"][k].guest]]
        /\ lauAt' = "helpers"
        /\ UNCHANGED <<lauLine, lauRun, lauTools, lauConf, lauKids, lauCode>>

\* One virtiofsd for each directory; it is given a quarter of a second to fail.
LaunchVirtiofsd ==
  /\ lauAt = "helpers" /\ lauTools /\ Len(lauHelpers) < Len(lauRun["virtiofs"])
  /\ \/ lauHelpers' = Append(lauHelpers, TRUE) /\ UNCHANGED <<lauAt, lauLine, lauPlan, lauQemu, lauStderr, lauCode>>
     \/ Ends(0)

\* The handles are dropped when the arguments are complete, which kills the helpers before QEMU runs;
\* nor does QEMU look for the socket they listened on (virtiofs.sock), nor are their lines of the table
\* of mounts written.
HelpersDropped ==
  /\ lauAt = "helpers" /\ (lauTools => Len(lauHelpers) = Len(lauRun["virtiofs"]))
  /\ lauHelpers' = [k \in DOMAIN lauHelpers |-> FALSE]
  /\ lauAt' = "spawn"
  /\ UNCHANGED <<lauLine, lauPlan, lauQemu, lauStderr, lauCode>>

SpawnQemu ==
  /\ lauAt = "spawn"
  /\ \/ Ends(0)
     \/ /\ lauAt' = "wait" /\ lauQemu' = "running" /\ lauStderr' = "open"
        /\ UNCHANGED <<lauLine, lauPlan, lauHelpers, lauCode>>

\* The task that copies the errors ends at their end, or at a line it cannot read: QEMU's handle
\* is dropped.
StderrTaskEnds == lauAt = "wait" /\ lauStderr = "closed" /\ Ends(0)

QemuWaited == lauAt = "wait" /\ lauQemu = "exited" /\ Ends(0)

-----------------------------------------------------------------------------
\* External: QEMU ends, which closes its pipe, or closes it, or writes what is not UTF-8.
QemuExits ==
  /\ lauQemu = "running" /\ lauQemu' = "exited" /\ lauStderr' = "closed"
  /\ UNCHANGED <<lauAt, lauLine, lauPlan, lauHelpers, lauCode>>

StderrBreaks ==
  /\ lauQemu = "running" /\ lauStderr = "open" /\ lauStderr' = "closed"
  /\ UNCHANGED <<lauAt, lauLine, lauPlan, lauHelpers, lauQemu, lauCode>>

HelperExits ==
  /\ \E k \in DOMAIN lauHelpers : lauHelpers[k] /\ lauHelpers' = [lauHelpers EXCEPT ![k] = FALSE]
  /\ UNCHANGED <<lauAt, lauLine, lauPlan, lauQemu, lauStderr, lauCode>>

\* External: somebody kills the launcher, which catches no signal: its children live on.
LauncherKilled ==
  /\ lauAt \notin {"parse", "ended", "killed"} /\ lauAt' = "killed"
  /\ UNCHANGED <<lauLine, lauPlan, lauKids, lauCode>>

LaunchNext ==
  \/ ParseArgs \/ FindRequiredTools \/ AnalyzeRequiredArgs
  \/ Configure9p \/ LaunchVirtiofsd \/ HelpersDropped \/ SpawnQemu \/ StderrTaskEnds \/ QemuWaited
  \/ QemuExits \/ StderrBreaks \/ HelperExits \/ LauncherKilled

LaunchSpec == LaunchInit /\ [][LaunchNext]_lauVars

-----------------------------------------------------------------------------
\* utils.rs escape_path: slashes at the ends go, those in between become one dash each, and a dash
\* itself, or a dot in front, is escaped.
Trimmed(text) ==
  LET solid == {k \in DOMAIN text : text[k] # "/"}
  IN IF solid = {} THEN <<>> ELSE SubSeq(text, Min(solid), Max(solid))
Squeezed(text) ==
  LET upTo[k \in 0 .. Len(text)] ==
        IF k = 0 THEN <<>>
        ELSE IF text[k] = "/" /\ k > 1 /\ text[k - 1] = "/" THEN upTo[k - 1]
        ELSE Append(upTo[k - 1], text[k])
  IN upTo[Len(text)]
EscapeByte(c, first) ==
  CASE c = "/" -> "-" [] c = "-" -> "x2d" [] c = "." /\ first -> "x2e" [] OTHER -> c
EscapePath(text) ==
  LET t == Squeezed(Trimmed(text))
  IN IF t = <<>> THEN <<"-">> ELSE [k \in DOMAIN t |-> EscapeByte(t[k], k = 1)]

\* Every variable keeps its type (launcher/src).
LauTypeOK ==
  /\ lauAt \in {"parse", "tools", "options", "shares", "helpers", "spawn", "wait", "ended", "killed"}
  /\ \A o \in Scalars : Len(lauRun[o]) <= 1
  /\ lauConf.mem \in 0 .. U32 - 1
  /\ lauQemu \in {"none", "running", "exited", "killed"} /\ lauStderr \in {"none", "open", "closed"}
  /\ lauCode \in {-1, 0, 1}

\* The words of a line that are values of the words before them.
Needs(words, k) == words[k].stem \in LauOptions /\ words[k].inline = <<>>
Values(words) ==
  LET value[k \in 0 .. Len(words)] == k > 1 /\ Needs(words, k - 1) /\ ~value[k - 1]
  IN {k \in DOMAIN words : value[k]}

Said(words, k) ==
  Handled(words[k].stem, IF Needs(words, k) THEN words[k + 1].text ELSE words[k].inline[1])
Mentions(words, o) == {k \in DOMAIN words \ Values(words) : words[k].stem = o}

\* Each value belongs to the option right before it, or in the same word; the last value of a scalar
\* counts, and every one of a list, in order.
AsWritten(run, words) ==
  /\ \A o \in Scalars : LET of == Mentions(words, o) IN run[o] = IF of = {} THEN <<>> ELSE Said(words, Max(of))
  /\ \A o \in Lists :
       LET of == Mentions(words, o) IN
       /\ Len(run[o]) = Cardinality(of)
       /\ \A k \in of : Said(words, k) = <<run[o][Cardinality({j \in of : j <= k})]>>

\* A line that is accepted is read as it is written (parse_run_args).
ArgumentsAreRead == lauAt \notin {"parse", "ended"} => AsWritten(lauRun, Tail(lauLine))

\* The directories behind the devices with a tag.
Behind(shares, tag) ==
  {f.path : f \in {g \in shares.fsdevs : \E d \in shares.devices : d.tag = tag /\ d.id = g.id}}

\* Whatever else is shared, the guest mounts at each path of its table the very directory that was
\* asked for there, and certificates only come from a configuration file (configure_9p_volumes,
\* configure_virtio_9p_single).
SharesFindTheirPlaces ==
  lauAt \in {"helpers", "spawn", "wait"} =>
    /\ Len(lauFstab) = Len(lauRun["volume"])
    /\ \A k \in DOMAIN lauFstab :
         /\ lauFstab[k].guest = lauRun["volume"][k].guest
         /\ Behind(lauShares, lauFstab[k].tag) = {lauRun["volume"][k].host}
    /\ Behind(lauShares, <<"ccashare", 0>>) = {RunDir}
    /\ Behind(lauShares, <<"certshare", 0>>) # {} <=> lauRun["app-conf"] # <<>>

\* A machine that no file describes has the processors, the context id and the memory that were asked
\* for, or possible ones by default; memory beyond 32 bits is left out, for it is cut. Beside a file
\* nothing of the kind is claimed: its values count, unvalidated, and --mem and --cid do not
\* (validate_mem, validate_smp, validate_cid, analyze_required_args).
MachineAsked(run, conf) ==
  /\ conf.smp \in 1 .. U16 - 1 /\ conf.smp = Last1(run["smp"], conf.smp)
  /\ conf.cid \in 3 .. U32 - 1 /\ conf.cid = Last1(run["cid"], conf.cid)
  /\ run["mem"] = <<>> \/ run["mem"][1] < U32 =>
       conf.mem \in 1 .. U32 - 1 /\ conf.mem = Last1(run["mem"], conf.mem)
MachineIsPossible ==
  lauAt \in {"shares", "helpers", "spawn", "wait"} /\ lauRun["app-conf"] = <<>> => MachineAsked(lauRun, lauConf)

\* Two directories have one tag only if their paths differ in nothing but slashes (escape_path).
TagsTellPathsApart ==
  \A a, b \in LauTags : EscapePath(a) = EscapePath(b) => Squeezed(Trimmed(a)) = Squeezed(Trimmed(b))

\* An accepted line is read as it is written, and what it asks for by --volume, --smp, --cid and, up to
\* 32 bits and without a file, --mem is what the guest gets. Not so --virtiofs, which cli.rs:449 offers
\* as well: its helpers are gone before QEMU runs, see HelpersDropped (launcher/src).
LaunchesAsAsked ==
  LauTypeOK /\ ArgumentsAreRead /\ SharesFindTheirPlaces /\ MachineIsPossible /\ TagsTellPathsApart
=============================================================================
