------------------------------- MODULE MCKernel -------------------------------
(***************************************************************************)
(* Policies and calls for TLC: rules that mention a pattern twice, that    *)
(* overlap, that end in a star or hold one, on paths about the length of   *)
(* a word, of half a buffer and of a buffer.                               *)
(***************************************************************************)
EXTENDS KernelPolicy

KernelSeqs(S, n) == UNION {[1..k -> S] : k \in 0..n}
MCKernelTexts == KernelSeqs({"/", "a"}, 4)
KernelEmpty == [mode |-> "block", default |-> "allow", port |-> 0, caps |-> <<>>, files |-> <<>>, nets |-> <<>>]
KernelProxy == [addr |-> <<1, 0>>, port |-> 2, route |-> 3, container |-> <<1, 1>>]
Modes == {[KernelEmpty EXCEPT !.mode = m, !.default = d] : m \in {"block", "alert"}, d \in {"allow", "block"}}
KernelPatterns == {<<"*">>, <<"/", "a">>, <<"/", "*">>, <<"/", "a", "*">>, <<"/", "*", "a">>}
LongPath == <<"/", "a", "b", "b">>
CapRules == [caps : {{"kill"}, {"chown", "odd"}}, path : {<<>>, << <<>> >>} \cup {<<p>> : p \in KernelPatterns}]
OpenRules == [path : KernelPatterns \cup {<<>>, LongPath}, attrs : {{}, {"r"}, {"r", "w"}}]
NetRules ==
  [operation : {"connect"}, addr : {<<0, 0>>, <<1, 0>>}, bits : {0, 1, 2}, port : {0, 1}, protocol : {"*", "udp"},
   action : {"allow", "block", "redirect"}]
CapCalls == [hook : {"capable"}, cap : {"kill", "chown", "odd"}, exe : {<<>>, <<<<"a">>>>, <<<<"b">>>>, <<<<"b">>, <<"a">>>>, <<<<"b">>, <<"a">>, <<"b">>>>, <<<<"b", "a", "b">>, <<"b", "a", "b">>>>}]
OpenCalls == [hook : {"open"}, path : {<<"/", "a">>, <<"/", "b">>, <<"/", "a", "b">>, LongPath, LongPath \o LongPath}, perms : {{}, {"r"}, {"w"}, {"r", "w"}}]
ExecCalls == [hook : {"exec"}, path : {<<"/", "a">>, <<"/", "b">>, LongPath, LongPath \o LongPath}]
UnixCalls == [hook : {"unix"}, path : {<<"/", "a">>, <<"/", "a", "b">>}]
NetCalls == [hook : {"connect"}, addr : {<<0, 0>>, <<0, 1>>, <<1, 1>>}, port : {1, 2}, protocol : {"tcp", "udp"}]
Socks == {<<>>, <<<<"/", "a">>>>}

\* Every policy of S before every call of T.
KernelFamily(S, T) == [policy |-> S, sock |-> {<<>>}, proxy |-> {KernelProxy}, full |-> {FALSE}, call |-> T]
MCKernelCases ==
  {KernelFamily({[m EXCEPT !.caps = s] : m \in {KernelEmpty, [KernelEmpty EXCEPT !.default = "block"]}, s \in KernelSeqs(CapRules, 2)}, CapCalls),
   KernelFamily({[KernelEmpty EXCEPT !.files = s] : s \in KernelSeqs(OpenRules, 2)}, OpenCalls),
   [KernelFamily({[m EXCEPT !.files = <<[path |-> <<"/", "a", "*">>, attrs |-> {"r"}]>>, !.caps = <<[caps |-> {"kill"}, path |-> <<>>]>>] : m \in Modes},
                 OpenCalls \cup ExecCalls \cup UnixCalls \cup CapCalls) EXCEPT !.full = BOOLEAN, !.sock = Socks],
   [KernelFamily({NoCase}, OpenCalls \cup ExecCalls \cup UnixCalls \cup CapCalls \cup NetCalls) EXCEPT !.full = BOOLEAN, !.sock = Socks],
   KernelFamily({[KernelEmpty EXCEPT !.nets = s] : s \in {<<>>} \cup {<<x>> : x \in NetRules} \cup {<<x, y>> : x \in NetRules, y \in {z \in NetRules : z.bits = 0 /\ z.protocol = "*"}}}, NetCalls),
   [KernelFamily({[m EXCEPT !.nets = <<r>>, !.port = p] : m \in Modes, r \in {x \in NetRules : x.bits = 2}, p \in {0, 1}}, NetCalls)
      EXCEPT !.full = BOOLEAN, !.proxy = {KernelProxy, [KernelProxy EXCEPT !.port = 0]}]}
=============================================================================
