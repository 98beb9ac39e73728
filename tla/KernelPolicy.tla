----------------------------- MODULE KernelPolicy -----------------------------
(***************************************************************************)
(* What the eBPF programs decide: a security policy as the loader compiles *)
(* it into kernel maps (security/src/ebpf/mod.rs), each hook's answer to   *)
(* one call of a container (security/src/bpf), and the copies of the       *)
(* decisions in user space (security/src/filters).                         *)
(*                                                                         *)
(* Texts are sequences of symbols.  An octet of an address is one bit, so  *)
(* that an address is two bits; a port is a small number.                  *)
(***************************************************************************)
EXTENDS Integers, Sequences, FiniteSets, SequencesExt

CONSTANTS
  Symbols,       \* what texts are made of
  KernelCases,   \* what is tried: records of the sets [policy, sock, proxy, full, call] are drawn from
  KernelTexts,   \* texts whose comparison is tried
  PathLen,       \* MAX_PATH_PATTERN_LEN, MAX_EXE_PATH_LEN: 256
  WordLen,       \* bytes compared at once: 8
  MaxRules,      \* MAX_CAP_PATH_RULES and its like: 32
  MaxDepth,      \* MAX_LOOP_LIMIT: 30
  NoCase

PathText == Seq(Symbols)
Address == [1..2 -> {0, 1}]

CapabilityRules == [caps : SUBSET STRING, path : Seq(PathText)]
FileRules == [path : PathText, attrs : SUBSET STRING]
NetworkRules ==
  [operation : STRING, addr : Address, bits : 0..2, port : Nat, protocol : STRING,
   action : {"allow", "block", "redirect"}]
Policies ==
  [mode : {"block", "alert"}, default : {"allow", "block"}, port : Nat,
   caps : Seq(CapabilityRules), files : Seq(FileRules), nets : Seq(NetworkRules)]
Calls ==
  [hook : {"capable"}, cap : STRING, exe : Seq(PathText)]
    \cup [hook : {"open"}, path : PathText, perms : SUBSET STRING]
    \cup [hook : {"exec", "unix"}, path : PathText]
    \cup [hook : {"connect"}, addr : Address, port : Nat, protocol : STRING]

\* The path of a socket has room in a buffer with a zero after it (sun_path has 108 bytes).
FitsWithZero(t) == t \in PathText /\ Len(t) < PathLen

\* No text holds the zero that ends it in a buffer.
ASSUME KernelAssumption ==
  /\ {"/", "*"} \subseteq Symbols /\ "0" \notin Symbols
  /\ WordLen \in Nat \ {0} /\ PathLen \in Nat \ {0} /\ PathLen % WordLen = 0
  /\ MaxRules \in Nat /\ MaxDepth \in Nat \ {0}
  /\ \A k \in KernelCases :
       /\ \A policy \in k.policy : policy = NoCase \/ policy \in Policies
       /\ \A sock \in k.sock : sock \in Seq(PathText) /\ (sock # <<>> => FitsWithZero(sock[1]))
       /\ \A proxy \in k.proxy : proxy \in [addr : Address, port : Nat, route : Nat, container : Address]
       /\ k.full \subseteq BOOLEAN
       /\ \A call \in k.call : call \in Calls /\ (call.hook = "unix" => FitsWithZero(call.path))
  /\ \A t \in KernelTexts : FitsWithZero(t)

VARIABLES kerCase, kerOut, kerTexts
kerVars == <<kerCase, kerOut, kerTexts>>

Caps == {"chown", "kill"}      \* names cap_name_to_bit knows; another is ignored

-----------------------------------------------------------------------------
\* common.bpf.h, filesystem.bpf.c and capability.bpf.c: texts in buffers, compared a word at a time.
\* A rule's pattern, the path of a socket and of an executable are followed by zeros.
Padded(t) == t \o [k \in 1..(PathLen - Len(t)) |-> "0"]
\* bpf_d_path puts a path together at the end of the buffer and moves it to the front: of what it
\* built stays what lies behind the terminator, the last bytes of a long path.
Resolved(t) ==
  LET n == Len(t) + 1
  IN [k \in 1..PathLen |-> IF k <= Len(t) THEN t[k]
                           ELSE IF k > n /\ k > PathLen - n THEN Append(t, "0")[k - (PathLen - n)]
                           ELSE "0"]
WordOf(buf, i) == SubSeq(buf, (i - 1) * WordLen + 1, i * WordLen)
WordsOfPath == 1..(PathLen \div WordLen)
HasZero(word) == Contains(word, "0")

ExactMatch(path, target) ==
  \E i \in WordsOfPath :
    /\ \A j \in 1..i : WordOf(path, j) = WordOf(target, j)
    /\ HasZero(WordOf(path, i))

\* In the word where the prefix ends only what comes before its end counts.
PrefixMatch(path, prefix) ==
  \E i \in WordsOfPath :
    /\ \A j \in 1..(i - 1) : WordOf(path, j) = WordOf(prefix, j) /\ ~HasZero(WordOf(prefix, j))
    /\ LET a == WordOf(path, i)  b == WordOf(prefix, i)
       IN /\ HasZero(b)
          /\ \A k \in 1..WordLen : (\A l \in 1..k : b[l] # "0") => a[k] = b[k]

PathMatches(glob, buf) ==
  IF glob.type = "prefix" THEN PrefixMatch(buf, Padded(glob.path)) ELSE ExactMatch(buf, Padded(glob.path))

-----------------------------------------------------------------------------
\* ebpf/mod.rs: a pattern is a text, or what comes before a star of it.
CompileGlob(p) ==
  IF p \in {<<>>, <<"*">>} THEN [type |-> "exact", path |-> <<>>]
  ELSE IF Last(p) = "*" THEN [type |-> "prefix", path |-> Front(p)]
  ELSE IF Contains(p, "*") THEN [type |-> "prefix", path |-> SubSeq(p, 1, SelectInSeq(p, LAMBDA c : c = "*") - 1)]
  ELSE [type |-> "exact", path |-> p]

HasPath(r) == r.path # <<>> /\ r.path[1] \notin {<<>>, <<"*">>}

CapMask(policy) == UNION {r.caps \cap Caps : r \in {x \in ToSet(policy.caps) : ~HasPath(x)}}
HasPathRules(policy) == \E r \in ToSet(policy.caps) : HasPath(r) /\ r.caps \cap Caps # {}

CapPatterns(policy) == {r.path[1] : r \in {x \in ToSet(policy.caps) : HasPath(x)}}

\* Mutant: a pattern that comes again replaces what was gathered for it.
PathMaskOfLast(policy, p) ==
  policy.caps[Max({k \in DOMAIN policy.caps : HasPath(policy.caps[k]) /\ policy.caps[k].path[1] = p})].caps \cap Caps

\* All that is said of a pattern, wherever it is mentioned.
PathMask(policy, p) == UNION {r.caps \cap Caps : r \in {x \in ToSet(policy.caps) : HasPath(x) /\ x.path[1] = p}}

\* One rule for each pattern; their order decides nothing.
CapPathRules(policy) == {[mask |-> PathMask(policy, p), glob |-> CompileGlob(p)] : p \in CapPatterns(policy)}

FsPathRules(policy) ==
  [k \in DOMAIN policy.files |-> [perms |-> policy.files[k].attrs, glob |-> CompileGlob(policy.files[k].path)]]

\* What has no room in a table, with a zero after each pattern, is refused before anything is written.
TooLarge(policy) ==
  \/ Cardinality(CapPatterns(policy)) > MaxRules \/ Len(policy.files) > MaxRules \/ Len(policy.nets) > MaxRules
  \/ \E p \in CapPatterns(policy) \cup {r.path : r \in ToSet(policy.files)} : Len(p) >= PathLen

\* A rule for another operation than connect fails the update, after the other tables were written.
NotStored(policy) == \E r \in ToSet(policy.nets) : r.operation # "connect"

-----------------------------------------------------------------------------
\* The hooks.  An event finds room in the ring or is lost; the answer is the same.
HookAnswer(verdict, event) == [verdict |-> verdict, event |-> event]
Emit(full, mode) ==
  HookAnswer(IF mode = "block" THEN "refused" ELSE "pass", IF full THEN "none" ELSE mode)

Pass == HookAnswer("pass", "none")

\* capability.bpf.c: the path of the executable is put together from its last names.
GetSource(names) ==
  LET n == Len(names)
      kept == SubSeq(names, (IF n > MaxDepth THEN n - MaxDepth ELSE 0) + 1, n)
      text == FlattenSeq([k \in DOMAIN kept |-> <<"/">> \o kept[k]])
  IN IF text = <<>> \/ Len(text) >= PathLen THEN <<>> ELSE <<text>>

CheckPathRules(policy, call) ==
  LET source == GetSource(call.exe)
  IN source # <<>> /\ \E r \in CapPathRules(policy) : PathMatches(r.glob, Padded(source[1])) /\ call.cap \in r.mask

HandleCapable(c) ==
  IF c.policy = NoCase THEN Pass
  ELSE LET matched == c.call.cap \in CapMask(c.policy) \/ (HasPathRules(c.policy) /\ CheckPathRules(c.policy, c.call))
       IN IF matched \/ c.policy.default = "block" THEN Emit(c.full, c.policy.mode) ELSE Pass

\* filesystem.bpf.c: bpf_d_path fails on what does not fit.
DPath(path) == IF Len(path) < PathLen THEN <<Resolved(path)>> ELSE <<>>

\* The first rule that names the path decides.
CheckFsPathRules(policy, perms, buf) ==
  LET rules == FsPathRules(policy)
      k == SelectInSeq(rules, LAMBDA r : PathMatches(r.glob, buf))
  IN IF k = 0 THEN "unnamed" ELSE IF perms \subseteq rules[k].perms THEN "granted" ELSE "exceeds"

ByRule(c, found) ==
  IF found = "granted" \/ (found = "unnamed" /\ c.policy.default = "allow") THEN Pass
  ELSE Emit(c.full, c.policy.mode)

HandleFileOpen(c) ==
  LET path == DPath(c.call.path)
  IN IF c.policy = NoCase THEN Pass
     ELSE IF c.sock # <<>> /\ path # <<>> /\ ExactMatch(path[1], Padded(c.sock[1]))
     THEN Emit(c.full, c.policy.mode)
     ELSE IF c.call.perms = {} THEN Pass
     ELSE ByRule(c, IF path = <<>> THEN "unnamed" ELSE CheckFsPathRules(c.policy, c.call.perms, path[1]))

\* An executable whose path does not fit is let through, whatever the default.
HandleBprmExec(c) ==
  LET path == DPath(c.call.path)
  IN IF path = <<>> \/ c.policy = NoCase THEN Pass
     ELSE ByRule(c, CheckFsPathRules(c.policy, {"x"}, path[1]))

\* The controller's socket is closed to a container even when its policy is gone.
HandleUnixConnect(c) ==
  IF c.sock # <<>> /\ ExactMatch(Padded(c.call.path), Padded(c.sock[1]))
  THEN Emit(c.full, IF c.policy = NoCase THEN "block" ELSE c.policy.mode)
  ELSE Pass

-----------------------------------------------------------------------------
\* network.bpf.c.  A rule's address is a number whose first octet counts most; the kernel's
\* user_ip4 holds the first octet in its least byte.
UserIp4(addr) == Reverse(addr)

MatchNetworkRule(r, call) ==
  /\ \A k \in 1..r.bits : UserIp4(call.addr)[k] = r.addr[k]
  /\ r.port \in {0, call.port}
  /\ r.protocol \in {"*", call.protocol}

CheckNetworkRules(policy, call) ==
  LET k == SelectInSeq(policy.nets, LAMBDA r : MatchNetworkRule(r, call))
  IN IF k = 0 THEN policy.default ELSE policy.nets[k].action

Reaches(verdict, event, addr, port) == [verdict |-> verdict, event |-> event, addr |-> addr, port |-> port]

\* The mode of the policy is not asked.  A redirection without a port to go to leaves the call as it is.
HandleConnect4(c) ==
  LET call == c.call
      event(e) == IF c.full THEN "none" ELSE e
      towards(port) == IF port = 0 THEN Reaches("pass", event("redirect"), call.addr, call.port)
                       ELSE Reaches("pass", event("redirect"), c.proxy.addr, port)
      action == CheckNetworkRules(c.policy, call)
  IN IF c.policy = NoCase THEN Reaches("pass", "none", call.addr, call.port)
     ELSE IF c.policy.port # 0 /\ call.port = c.policy.port /\ call.addr = c.proxy.container
     THEN towards(c.proxy.route)
     ELSE IF action = "redirect" THEN towards(c.proxy.port)
     ELSE Reaches(IF action = "block" THEN "refused" ELSE "pass", event(action), call.addr, call.port)

Hook(c) ==
  CASE c.call.hook = "capable" -> HandleCapable(c)
    [] c.call.hook = "open" -> HandleFileOpen(c)
    [] c.call.hook = "exec" -> HandleBprmExec(c)
    [] c.call.hook = "unix" -> HandleUnixConnect(c)
    [] c.call.hook = "connect" -> HandleConnect4(c)

-----------------------------------------------------------------------------
\* filters/*.rs
\* How much of the text the first symbols of the pattern may stand for.
GlobMatch(p, t) ==
  LET reach[i \in 0..Len(p)] ==
        IF i = 0 THEN {0}
        ELSE IF p[i] = "*" THEN {k \in 0..Len(t) : \E j \in reach[i - 1] : j <= k}
        ELSE {k \in 1..Len(t) : t[k] = p[i] /\ k - 1 \in reach[i - 1]}
  IN Len(t) \in reach[Len(p)]

\* evaluate, and should_block_path, to which an empty pattern says nothing.
FilterCapability(policy, cap, exe) ==
  \E r \in ToSet(policy.caps) : cap \in r.caps /\ (r.path = <<>> \/ GlobMatch(r.path[1], exe))
ShouldBlockPath(policy, cap, exe) ==
  \E r \in ToSet(policy.caps) : cap \in r.caps /\ (~HasPath(r) \/ GlobMatch(r.path[1], exe))

FilterFilesystem(policy, perms, path) ==
  \E r \in ToSet(policy.files) :
    /\ IF r.path # <<>> /\ Last(r.path) = "*" THEN IsPrefix(Front(r.path), path) ELSE path = r.path
    /\ ~(perms \subseteq r.attrs)

\* A network is compared as the text before its slash, here its whole address.
FilterNetwork(policy, call) ==
  LET matches(r) == /\ r.operation = "connect" /\ (r.bits = 0 \/ r.addr = call.addr)
                    /\ r.port \in {0, call.port} /\ r.protocol \in {"*", call.protocol}
      k == SelectInSeq(policy.nets, matches)
  IN IF k = 0 THEN "allow" ELSE policy.nets[k].action

-----------------------------------------------------------------------------
KernelInit == kerCase = NoCase /\ kerOut = NoCase /\ kerTexts = NoCase

\* A call of a container, under the policy its maps hold.
KernelCall ==
  /\ kerCase = NoCase /\ kerTexts = NoCase
  /\ \E k \in KernelCases :
       \E policy \in k.policy, sock \in k.sock, proxy \in k.proxy, full \in k.full, call \in k.call :
         /\ policy # NoCase => ~NotStored(policy) /\ ~TooLarge(policy)
         /\ kerCase' = [policy |-> policy, sock |-> sock, proxy |-> proxy, full |-> full, call |-> call]
         /\ kerOut' = Hook(kerCase')
  /\ UNCHANGED kerTexts

KernelCompare ==
  /\ kerCase = NoCase /\ kerTexts = NoCase
  /\ kerTexts' \in KernelTexts \X KernelTexts
  /\ UNCHANGED <<kerCase, kerOut>>

KernelNext == KernelCall \/ KernelCompare
KernelSpec == KernelInit /\ [][KernelNext]_kerVars

-----------------------------------------------------------------------------
\* Every answer is one of a hook's, and what is refused is reported as that or not at all
\* (security/src/bpf).
KernelTypeOK ==
  kerOut # NoCase => /\ kerOut.verdict \in {"pass", "refused"}
                     /\ kerOut.event \in {"none", "block", "alert", "allow", "redirect"}
                     /\ kerOut.verdict = "refused" => kerOut.event \in {"none", "block"}

\* Paths of which bpf_d_path leaves nothing in the word of the terminator: up to 123 bytes of 256.
Short(t) == 2 * Len(t) + WordLen < PathLen

\* Comparing a word at a time never takes one text for another, wherever the texts end and whatever
\* bpf_d_path left behind them, and a prefix is always found; the text itself is found behind zeros
\* and, resolved by bpf_d_path, when it is short.  A long path is not found by its own name
\* (fs_path_exact_match, fs_path_prefix_match and their copies in capability.bpf.c).
WordsCompareLikeText ==
  kerTexts # NoCase =>
    LET t == kerTexts[1]  u == kerTexts[2]
    IN /\ ExactMatch(Padded(t), Padded(u)) <=> (t = u)
       /\ ExactMatch(Resolved(t), Padded(u)) => (t = u)
       /\ t = u /\ Short(t) => ExactMatch(Resolved(t), Padded(u))
       /\ PrefixMatch(Padded(t), Padded(u)) <=> IsPrefix(u, t)
       /\ PrefixMatch(Resolved(t), Padded(u)) <=> IsPrefix(u, t)

Asked(hook) == kerCase # NoCase /\ kerCase.policy # NoCase /\ kerCase.call.hook = hook
Refuses == kerOut.verdict = "refused"
Listed == kerCase.policy.default = "allow" /\ kerCase.policy.mode = "block"
\* Patterns both sides read alike: at most one star, at the end, and more than the star.
Plain(p) == p # <<"*">> /\ (Contains(p, "*") => SelectInSeq(p, LAMBDA c : c = "*") = Len(p))
\* The whole path of the executable, when it is neither too deep nor too long.
Whole(names) == Len(names) <= MaxDepth /\ GetSource(names) # <<>>

\* However the rules of a policy are gathered into masks and tables, a capability is refused
\* exactly when one of its rules, read by itself, refuses it.  Said of policies that block and
\* allow by default, of plain patterns and of paths the hook puts together whole
\* (PolicyValue::from_policy, aggregate_cap_path_rules, handle_capable; filters/capability.rs
\* "mirror" of the kernel).
CapabilityRulesAreKept ==
  Asked("capable") /\ Listed /\ Whole(kerCase.call.exe)
  /\ (\A r \in ToSet(kerCase.policy.caps) : HasPath(r) => Plain(r.path[1])) =>
    LET exe == GetSource(kerCase.call.exe)[1]
        refused == kerCase.call.cap \in Caps /\ ShouldBlockPath(kerCase.policy, kerCase.call.cap, exe)
    IN /\ Refuses <=> refused
       /\ (\A r \in ToSet(kerCase.policy.caps) : r.path = <<>> \/ r.path[1] # <<>>) =>
            (Refuses <=> kerCase.call.cap \in Caps /\ FilterCapability(kerCase.policy, kerCase.call.cap, exe))

Starred(p) == p # <<>> /\ Last(p) = "*"

\* A policy that blocks, of plain patterns: one that allows by default refuses a file only where a
\* rule does, and does so where no two rules name the file and the path is short or named by a
\* star; one that blocks by default lets through only what a rule that names the file grants
\* (update_fs_path_rules, check_fs_path_rules; filters/filesystem.rs).
FileRulesAreKept ==
  Asked("open") /\ kerCase.policy.mode = "block" /\ kerCase.sock = <<>> /\ kerCase.call.perms # {}
  /\ DPath(kerCase.call.path) # <<>> /\ (\A r \in ToSet(kerCase.policy.files) : Plain(r.path)) =>
    LET files == kerCase.policy.files
        filtered == FilterFilesystem(kerCase.policy, kerCase.call.perms, kerCase.call.path)
        named == {k \in DOMAIN files : GlobMatch(files[k].path, kerCase.call.path)}
        found == Short(kerCase.call.path) \/ \A k \in named : Starred(files[k].path)
    IN IF kerCase.policy.default = "allow"
       THEN (Refuses => filtered) /\ (Cardinality(named) <= 1 /\ found /\ filtered => Refuses)
       ELSE ~Refuses => \E k \in named : kerCase.call.perms \subseteq files[k].attrs

\* Only of rules for whole addresses that read alike from both ends, or for any address, and of a
\* policy that allows by default: the kernel takes the first rule that fits, as the copy in user
\* space does.  Other addresses are compared in the wrong order of their octets
\* (check_network_rules, parse_ip; filters/network.rs).
NetworkRulesAreKept ==
  Asked("connect") /\ kerCase.policy.default = "allow" /\ kerCase.policy.port = 0
  /\ (\A r \in ToSet(kerCase.policy.nets) : r.bits = 0 \/ (r.bits = 2 /\ r.addr = Reverse(r.addr))) =>
    LET action == FilterNetwork(kerCase.policy, kerCase.call)
    IN /\ Refuses <=> action = "block"
       /\ kerOut.addr # kerCase.call.addr => action = "redirect"
       /\ action = "redirect" /\ kerCase.proxy.port # 0 => kerOut.addr = kerCase.proxy.addr /\ kerOut.port = kerCase.proxy.port

\* A container to which the controller's socket was closed does not reach it, with or without a
\* policy, unless the policy only alerts (sock_block_map, handle_unix_stream_connect).
SocketStaysClosed ==
  kerCase # NoCase /\ kerCase.call.hook = "unix" /\ kerCase.sock = <<kerCase.call.path>> =>
    (Refuses <=> (kerCase.policy = NoCase \/ kerCase.policy.mode = "block"))

\* What the hooks refuse of capabilities, files, connections and the controller's socket is what the
\* rules refuse, within the limits each part names, although they read compiled tables a word at a
\* time (security/src/bpf, security/src/ebpf/mod.rs).
KernelKeepsRules ==
  /\ KernelTypeOK
  /\ WordsCompareLikeText
  /\ CapabilityRulesAreKept /\ FileRulesAreKept /\ NetworkRulesAreKept
  /\ SocketStaysClosed
=============================================================================
