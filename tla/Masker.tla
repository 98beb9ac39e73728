-------------------------------- MODULE Masker --------------------------------
(***************************************************************************)
(* How a text is cleaned of what must not leave: a keyword opens a window, *)
(* in the window the expression of the keyword's own pattern is looked     *)
(* for, what it finds is checked against the whole text, and of what       *)
(* remains the leftmost, longest and disjoint matches are replaced         *)
(* (inference/src/masker: mod.rs, engine.rs, utf8.rs, validator.rs).       *)
(*                                                                         *)
(* A text is a sequence of characters, of one or two bytes; positions      *)
(* count from 0, in bytes or in characters as the code has it.  An         *)
(* expression is one or more characters of a set.                          *)
(***************************************************************************)
EXTENDS Integers, Sequences, FiniteSets, SequencesExt, FiniteSetsExt

CONSTANTS
  MaskPatternLists,  \* lists of patterns the masker may be built from
  MaskTexts,
  PhoneLength,       \* bytes of a telephone number: 11
  IdLength,          \* of the number of an identity card: 18
  BankLengths,       \* of the number of a bank card: 16 to 19
  NoText

MaskPatterns == [on : BOOLEAN, id : STRING, keywords : Seq(Seq(STRING)), regex : SUBSET STRING, dist : Nat]

\* A mark is no character of a text: it stands for a word of its own.
ASSUME MaskAssumption ==
  /\ PhoneLength \in Nat /\ IdLength \in Nat /\ BankLengths \subseteq Nat /\ NoText \notin MaskTexts
  /\ MaskTexts \subseteq Seq(STRING) /\ MaskPatternLists \subseteq Seq(MaskPatterns)
  /\ \A patterns \in MaskPatternLists, t \in MaskTexts :
       \A k \in DOMAIN patterns, i \in DOMAIN t : patterns[k].id # t[i]

VARIABLE maskProbe  \* a masker and a text it is given, with what it finds

maskVars == <<maskProbe>>

Digits == {"0", "1"}
Alnum == Digits \cup {"a", "A", "k", "K"}
MaskLower(c) == CASE c = "K" -> "k" [] c = "A" -> "a" [] OTHER -> c

-----------------------------------------------------------------------------
\* utf8.rs
ByteWidth(c) == IF c = "wide" THEN 2 ELSE 1
CharIndexToBytePos(t, i) == i + Cardinality({k \in 1..i : ByteWidth(t[k]) = 2})
Bytes(t) == CharIndexToBytePos(t, Len(t))
Boundaries(t) == {CharIndexToBytePos(t, i) : i \in 0..Len(t)}
\* A position inside of a character is the character's.
BytePosToCharIndex(t, b) == Max({i \in 0..Len(t) : CharIndexToBytePos(t, i) <= b})

-----------------------------------------------------------------------------
\* engine.rs
\* Where a keyword begins, whatever its case.
Occurrences(t, keyword) ==
  IF keyword = <<>> THEN {}
  ELSE {CharIndexToBytePos(t, i) : i \in
          {n \in 0..(Len(t) - Len(keyword)) : \A j \in 1..Len(keyword) : MaskLower(t[n + j]) = MaskLower(keyword[j])}}
Ahead(t, keyword, p) == {b \in Occurrences(t, keyword) : b >= p}

\* Behind the first byte of what was found, and on to a character's beginning or the end.
NextSearch(t, found) == Min({b \in (found + 1)..Bytes(t) : b = Bytes(t) \/ b \in Boundaries(t)})

\* Where the text is cut for the search that comes after n others: where the last one was, when
\* that found nothing.  Each one that finds something moves on, so Len(t) of them reach the end.
SearchStarts(t, keyword) ==
  LET start[n \in 0..Len(t)] ==
        IF n = 0 THEN 0
        ELSE LET p == start[n - 1]
             IN IF Ahead(t, keyword, p) = {} THEN p ELSE NextSearch(t, Min(Ahead(t, keyword, p)))
  IN start

\* What the searches find; matches may overlap.
ScanLiteral(t, keyword) ==
  LET start == SearchStarts(t, keyword)
  IN {Min(Ahead(t, keyword, start[n])) : n \in {m \in 0..Len(t) : Ahead(t, keyword, start[m]) # {}}}

\* [from, to) of the longest runs of characters of the set.
ScanRegex(t, set) ==
  {r \in (0..Len(t)) \X (0..Len(t)) :
     /\ r[1] < r[2] /\ \A k \in (r[1] + 1)..r[2] : t[k] \in set
     /\ r[1] = 0 \/ t[r[1]] \notin set
     /\ r[2] = Len(t) \/ t[r[2] + 1] \notin set}

-----------------------------------------------------------------------------
\* validator.rs
ByteLength(t, r) == CharIndexToBytePos(t, r[2]) - CharIndexToBytePos(t, r[1])
Beside(t, r, set) == (r[1] > 0 /\ t[r[1]] \in set) \/ (r[2] < Len(t) /\ t[r[2] + 1] \in set)

\* The names written in the code have rules of their own, the others the default.
Numbered == {"ID_Card", "Phone", "Bank_Card"}
LengthsOf(id) == CASE id = "ID_Card" -> {IdLength} [] id = "Phone" -> {PhoneLength} [] OTHER -> BankLengths
ValidateEntity(id, t, r) ==
  IF id \in Numbered THEN ByteLength(t, r) \in LengthsOf(id) /\ ~Beside(t, r, Digits)
  ELSE ~Beside(t, r, Alnum) /\ (id = "Email" => \E k \in (r[1] + 1)..r[2] : t[k] = "@")

-----------------------------------------------------------------------------
\* mod.rs
\* The patterns a masker is made of; there is none without a pattern that is enabled, or when an
\* expression does not compile.
FromPatterns(patterns) ==
  LET on == {k \in DOMAIN patterns : patterns[k].on}
  IN IF \E k \in on : patterns[k].regex = {"["} THEN {} ELSE on

\* The keywords in the order of the patterns, and where they occur: <<byte, <<pattern, keyword>>>>.
Keywords(patterns) == UNION {{k} \X DOMAIN patterns[k].keywords : k \in FromPatterns(patterns)}
KeywordMatches(patterns, t) ==
  UNION {ScanLiteral(t, patterns[w[1]].keywords[w[2]]) \X {w} : w \in Keywords(patterns)}
NotAfter(m, n) ==
  \/ m[1] < n[1]
  \/ m[1] = n[1] /\ (m[2][1] < n[2][1] \/ (m[2][1] = n[2][1] /\ m[2][2] <= n[2][2]))

\* Mutant: positions in bytes taken for positions in characters.
WindowInBytes(t, from, to, dist) == <<Max({0, from - dist}), Min({Len(t), to + dist})>>

\* So many characters before and after the keyword that begins and ends at these bytes.
Window(t, from, to, dist) ==
  <<Max({0, BytePosToCharIndex(t, from) - dist}), Min({Len(t), BytePosToCharIndex(t, to) + dist})>>

FoundBy(patterns, t, m) ==
  LET p == patterns[m[2][1]]
      keyword == p.keywords[m[2][2]]
      w == Window(t, m[1], m[1] + CharIndexToBytePos(keyword, Len(keyword)), p.dist)
  IN {<<w[1] + r[1], w[1] + r[2]>> : r \in ScanRegex(SubSeq(t, w[1] + 1, w[2]), p.regex)}

\* A stretch counts for the pattern that comes upon it first, even when that pattern rejects it.
FinderOf(patterns, t, r) ==
  LET by == {m \in KeywordMatches(patterns, t) : r \in FoundBy(patterns, t, m)}
  IN patterns[(CHOOSE m \in by : \A n \in by : NotAfter(m, n))[2][1]]

AllMatches(patterns, t) ==
  {r \in UNION {FoundBy(patterns, t, m) : m \in KeywordMatches(patterns, t)} :
     ValidateEntity(FinderOf(patterns, t, r).id, t, r)}

\* From the left, of the matches that begin together the longest, and no other that begins before
\* the last one kept has ended.
Longest(matches, i) == CHOOSE r \in matches : r[1] = i /\ \A s \in matches : s[1] = i => s[2] <= r[2]
\* Where the last one kept of those that begin before i ends.
KeptUntil(matches, n) ==
  LET until[i \in 0..n] ==
        IF i = 0 THEN 0
        ELSE LET before == until[i - 1]
             IN IF before < i /\ \E r \in matches : r[1] = i - 1 THEN Longest(matches, i - 1)[2] ELSE before
  IN until
DeduplicateMatches(matches, n) ==
  {r \in matches : KeptUntil(matches, n)[r[1]] <= r[1] /\ r = Longest(matches, r[1])}

\* What is written for the i-th character: a mark where a match begins, nothing inside of one.
Written(patterns, t, kept, i) ==
  IF \E r \in kept : r[1] = i - 1
  THEN <<FinderOf(patterns, t, CHOOSE r \in kept : r[1] = i - 1).id>>
  ELSE IF \E r \in kept : r[1] < i /\ i <= r[2] THEN <<>> ELSE <<t[i]>>

Desensitize(patterns, t) ==
  LET kept == DeduplicateMatches(AllMatches(patterns, t), Len(t))
  IN [matches |-> kept, text |-> FlattenSeq([i \in DOMAIN t |-> Written(patterns, t, kept, i)])]

MaskText(patterns, t) ==
  IF FromPatterns(patterns) = {} THEN [matches |-> {}, text |-> t] ELSE Desensitize(patterns, t)

MaskProbe ==
  /\ maskProbe = NoText
  /\ maskProbe' \in {[patterns |-> p, text |-> t, out |-> MaskText(p, t)] : p \in MaskPatternLists, t \in MaskTexts}

MaskInit == maskProbe = NoText
MaskNext == MaskProbe
MaskSpec == MaskInit /\ [][MaskNext]_maskVars

-----------------------------------------------------------------------------
Probed == maskProbe # NoText
Enabled == {k \in DOMAIN maskProbe.patterns : maskProbe.patterns[k].on}
Marks == {maskProbe.patterns[k].id : k \in Enabled}
MarksUpTo(k) == Cardinality({j \in 1..k : maskProbe.out.text[j] \in Marks})
\* The n-th match from the left, and what was where the k-th piece of the result is.
NthMatch(n) == CHOOSE r \in maskProbe.out.matches : Cardinality({s \in maskProbe.out.matches : s[1] <= r[1]}) = n
WasAt(k) ==
  IF maskProbe.out.text[k] \in Marks
  THEN SubSeq(maskProbe.text, NthMatch(MarksUpTo(k))[1] + 1, NthMatch(MarksUpTo(k))[2])
  ELSE <<maskProbe.out.text[k]>>

\* What is replaced is put back by replacing each mark by what it stands for: nothing else is
\* changed, lost or moved (mod.rs desensitize).
MaskingChangesNoOther ==
  Probed =>
    /\ MarksUpTo(Len(maskProbe.out.text)) = Cardinality(maskProbe.out.matches)
    /\ maskProbe.text = FlattenSeq([k \in DOMAIN maskProbe.out.text |-> WasAt(k)])

\* Where the expressions compile: an entity within reach of a keyword of its pattern, which no
\* pattern in force would reject, does not remain: it is replaced, or overlaps with one that is.
\* (It may be another pattern that comes upon it first, and rejects it for all of them.)
Reaches(t, pattern, e) ==
  \E i \in 0..Len(t), n \in DOMAIN pattern.keywords :
    LET w == pattern.keywords[n] IN
      /\ w # <<>> /\ \A j \in DOMAIN w : i + j <= Len(t) /\ MaskLower(t[i + j]) = MaskLower(w[j])
      /\ e[1] >= i - pattern.dist /\ e[2] <= i + Len(w) + pattern.dist
ReachableIsTouched ==
  Probed /\ FromPatterns(maskProbe.patterns) # {} =>
    \A p \in Enabled : \A e \in ScanRegex(maskProbe.text, maskProbe.patterns[p].regex) :
      Reaches(maskProbe.text, maskProbe.patterns[p], e)
        => \/ \E q \in Enabled : ~ValidateEntity(maskProbe.patterns[q].id, maskProbe.text, e)
           \/ \E r \in maskProbe.out.matches : r[1] < e[2] /\ e[1] < r[2]

\* Nothing is replaced that is a part of a longer number, nor, unless it is itself a number of a
\* known kind, a part of a longer word (test known_ids_use_special_rules, validator.rs: the number
\* of an identity card is accepted between two letters).
OnlyWholeEntities ==
  Probed => \A r \in maskProbe.out.matches :
              /\ ~Beside(maskProbe.text, r, Digits)
              /\ FinderOf(maskProbe.patterns, maskProbe.text, r).id \in Numbered \/ ~Beside(maskProbe.text, r, Alnum)

\* The search loop cuts the text only between two characters (a cut inside of one would stop the
\* thread that decides on the request), and misses no keyword, however its occurrences overlap
\* (engine.rs scan).
SearchIsWhole ==
  Probed => \A p \in Enabled : \A w \in DOMAIN maskProbe.patterns[p].keywords :
              LET t == maskProbe.text
                  keyword == maskProbe.patterns[p].keywords[w]
              IN /\ \A n \in 0..Len(t) : SearchStarts(t, keyword)[n] \in Boundaries(t)
                 /\ Occurrences(t, keyword) \subseteq ScanLiteral(t, keyword)

\* The texts of a prompt are cleaned of whole entities, of all that their patterns reach and accept,
\* and of nothing else (masker/mod.rs).
TextsAreMasked == MaskingChangesNoOther /\ ReachableIsTouched /\ OnlyWholeEntities /\ SearchIsWhole
=============================================================================
