------------------------------ MODULE MCLauncher ------------------------------
(***************************************************************************)
(* Command lines for TLC: every line of up to three words of each of three *)
(* vocabularies, and some whole ones.  The widths of integers are small, so *)
(* that numbers lie on both sides of each.                                 *)
(***************************************************************************)
EXTENDS Launcher, TLC

LauText(c) == <<c>>
LauValue(c) == <<LauText(c)>>
LauBare(o) == [stem |-> o, inline |-> <<>>, text |-> LauValue("--" \o o)]
LauInline(o, v) == [stem |-> o, inline |-> <<v>>, text |-> LauValue("--" \o o \o "=")]
LauWord(v) == [stem |-> "word", inline |-> <<>>, text |-> v]
LauCommand(s) == [LauWord(LauValue(s)) EXCEPT !.stem = s]

LauHome == <<"/", "h">>
LauWork == <<"/", "w">>
LauHalf == <<"h">>
LauVolumes == {<<LauHome, <<"/", "a">>>>, <<LauWork, <<>>, <<"/", "b">>>>, <<LauHalf, <<"/", "a">>>>, <<LauHome>>}

MCLauNumbers ==
  LauText("0") :> 0 @@ LauText("2") :> 2 @@ LauText("3") :> 3 @@ LauText("7") :> 7 @@ LauText("8") :> 8
    @@ LauText("15") :> 15 @@ LauText("16") :> 16 @@ LauText("19") :> 19 @@ LauText("32") :> 32
MCLauIps == {LauText("ip")}
MCLauDirs == {LauHome, LauWork, LauText("certs")}
MCLauFiles == {LauValue(f) : f \in {"image", "rootfs", "conf", "halfconf", "badconf"}}
LauConfigOf(certs) ==
  [image |-> LauValue("image"), payload |-> LauValue("rootfs"), certdir |-> LauText(certs), memory |-> 19, cid |-> 0,
   extra |-> <<"-s">>]
MCLauConfigs ==
  LauValue("conf") :> <<LauConfigOf("certs")>> @@ LauValue("halfconf") :> <<LauConfigOf("image")>>
    @@ LauValue("badconf") :> <<>>
MCLauDefaults == [mem |-> 9, smp |-> 2, cid |-> 3]
MCLauTags == UNION {[1 .. k -> {"/", ".", "-"}] : k \in 0 .. 4}

LauSeqs(S, n) == UNION {[1 .. k -> S] : k \in 0 .. n}
\* Options and what they may stand next to.
LauNumberWords ==
  {LauBare("mem"), LauBare("smp"), LauInline("cid", LauValue("3")), LauInline("mem", LauValue("16")), LauBare("help"), LauBare("other")}
    \cup {LauWord(LauValue(n)) : n \in {"0", "2", "8", "32", "x"}}
LauShareWords ==
  {LauBare("volume"), LauBare("virtiofs"), LauInline("port-forward", <<LauText("ip"), LauText("7"), LauText("8")>>),
   LauInline("port-forward", <<<<>>, LauText("7"), LauText("3")>>)} \cup {LauWord(v) : v \in LauVolumes}
LauWholeWords == {LauInline("app-conf", LauValue(f)) : f \in {"conf", "halfconf", "badconf", "none"}}
  \cup {LauInline("runtime", LauValue(f)) : f \in {"qemu", "kvm"}} \cup {LauInline("kernel", << <<>> >>)}
LauImage == <<LauInline("kernel", LauValue("image")), LauBare("payload"), LauWord(LauValue("rootfs"))>>
LauConf == <<LauInline("app-conf", LauValue("conf"))>>
LauShared == <<LauBare("volume"), LauWord(<<LauHome, <<"/", "a">>>>)>>

MCLauLines ==
  {<<>>, <<LauCommand("help")>>, <<LauCommand("help subcommand")>>, <<LauCommand("walk")>>}
    \cup {<<LauCommand("run")>> \o s : s \in LauSeqs(LauWholeWords, 2)}
    \cup {<<LauCommand("run")>> \o LauImage \o s : s \in LauSeqs(LauNumberWords, 3)}
    \cup {<<LauCommand("run")>> \o start \o s : start \in {LauConf \o LauShared, LauImage \o LauShared, LauImage}, s \in LauSeqs(LauShareWords, 3)}
=============================================================================
