--------------------------- MODULE GatewayProofs ---------------------------
(***************************************************************************)
(* Theorems about the parts of Gateway, for any instance that their        *)
(* assumptions allow, and about the gateway that is made of them.          *)
(***************************************************************************)
EXTENDS Gateway, FiniteSetTheorems, WellFoundedInduction, SequenceTheorems, TLAPS

-----------------------------------------------------------------------------
(* Readiness. *)

\* Nobody asks or calls before start() is over, and one check probes at a time.
ReadyInv ==
    /\ ReadyTypeOK
    /\ pc[Boot] \in {"off", "probe", "done"}
    /\ OneProbe
    /\ ~Serving => ~doubt /\ \A u \in Call : call[u] = "idle"
    /\ FailureRetracts

LEMMA ReadyStart == ReadyInit => ReadyInv
  <1> SUFFICES ASSUME ReadyInit PROVE ReadyInv
    OBVIOUS
  <1> USE ReadinessAssumption DEF ReadinessAssumption, ReadyInit, Prober, Serving
  <1>1. ReadyTypeOK
    BY DEF ReadyTypeOK
  <1>2. OneProbe
    BY DEF OneProbe
  <1>3. FailureRetracts
    BY DEF FailureRetracts
  <1> QED
    BY <1>1, <1>2, <1>3 DEF ReadyInv

LEMMA ReadyStep == ReadyInv /\ [ReadyNext]_readyVars => ReadyInv'
  <1> SUFFICES ASSUME ReadyInv, [ReadyNext]_readyVars PROVE ReadyInv'
    OBVIOUS
  <1> USE ReadinessAssumption DEF ReadinessAssumption, ReadyInv, ReadyTypeOK, OneProbe, Serving,
          FailureRetracts, Prober, Goes, verdict
  <1>1. CASE Boots
    BY <1>1 DEF Boots
  <1>2. ASSUME NEW c \in Prober, NEW w \in WebTools, ProbeCall(c, w)
        PROVE  ReadyInv'
    BY <1>2 DEF ProbeCall
  <1>3. CASE BootEnds
    BY <1>3 DEF BootEnds, Record, Good, Forgets, WebTools
  <1>4. CASE BootWithoutWeb
    BY <1>4 DEF BootWithoutWeb, Record, Forgets, WebTools
  <1>5. ASSUME NEW c \in Check
        PROVE  /\ Ask(c) \/ NotDiscovered(c) \/ Respond(c) => ReadyInv'
               /\ Refresh(c) \/ Resume(c) => ReadyInv'
               /\ ProbeEnds(c) => ReadyInv'
    <2>1. Ask(c) \/ NotDiscovered(c) \/ Respond(c) => ReadyInv'
      <3>1. Ask(c) => ReadyInv'
        BY DEF Ask
      <3>2. NotDiscovered(c) => ReadyInv'
        BY DEF NotDiscovered
      <3>3. Respond(c) => ReadyInv'
        BY DEF Respond
      <3> QED
        BY <3>1, <3>2, <3>3
    <2>2. Refresh(c) => ReadyInv'
      BY DEF Refresh, Cached
    <2>3. Resume(c) => ReadyInv'
      BY DEF Resume, Free, Cached
    <2>4. ProbeEnds(c) => ReadyInv'
      <3> SUFFICES ASSUME ProbeEnds(c) PROVE ReadyInv'
        OBVIOUS
      <3>1. /\ pc' = [pc EXCEPT ![c] = "rest"] /\ pc[c] = "probe" /\ lock = c /\ lock' = None
            /\ doubt' = FALSE /\ call' = call /\ Serving
        BY DEF ProbeEnds, Unlocks
      <3>2. ready' \in BOOLEAN /\ fresh' \in BOOLEAN /\ told' \in [Check -> BOOLEAN]
        BY DEF ProbeEnds, Record, Good
      <3>3. missing' \in {{}, WebTools} /\ (ready' <=> missing' = {})
        BY DEF ProbeEnds, Record, Good, WebTools
      <3>4. found' \in [Prober -> [WebTools -> {"unread", "ok", "bad"}]] /\ up' \in BOOLEAN
        BY DEF ProbeEnds, Forgets
      <3> QED
        BY <3>1, <3>2, <3>3, <3>4
    <2> QED
      BY <2>1, <2>2, <2>3, <2>4
  <1>6. ASSUME NEW u \in Call, Send(u) \/ Reach(u) \/ Succeed(u)
        PROVE  ReadyInv'
    BY <1>6 DEF Send, Reach, Succeed
  <1>7. ASSUME NEW u \in Call, Fail(u)
        PROVE  ReadyInv'
    BY <1>7 DEF Fail, Retract, WebTools
  <1>8. CASE Expire
    BY <1>8 DEF Expire, Expires
  <1>9. CASE Change
    BY <1>9 DEF Change
  <1>10. CASE UNCHANGED readyVars
    BY <1>10 DEF readyVars
  <1> QED
    BY <1>1, <1>2, <1>3, <1>4, <1>5, <1>6, <1>7, <1>8, <1>9, <1>10 DEF ReadyNext

\* However many checks, failing calls and probes overlap: one check probes, and
\* after a failure nobody is answered from the cache (refresh_web_tools, call).
THEOREM ReadinessHolds == ReadySpec => []VerdictKept
  <1>1. ReadyInv => VerdictKept
    BY DEF ReadyInv, VerdictKept
  <1> QED
    BY <1>1, ReadyStart, ReadyStep, PTL DEF ReadySpec

-----------------------------------------------------------------------------
(* The pages of a file. *)

\* A nonempty finite set of numbers has a greatest one.
LEMMA Greatest ==
  ASSUME NEW S, S # {}, NEW n \in Nat, S \subseteq 0..n
  PROVE  \E x \in S : \A y \in S : y <= x
  <1> DEFINE Above(x) == {y \in S : y > x}
             T == {Above(x) : x \in S}
  <1>1. IsFiniteSet(S)
    <2>1. IsFiniteSet(0..n)
      BY FS_Interval
    <2> QED
      BY <2>1, FS_Subset
  <1>2. T \subseteq FiniteSubsetsOf(S) /\ T # {}
    <2>1. ASSUME NEW x \in S
          PROVE  Above(x) \in FiniteSubsetsOf(S)
      <3>1. Above(x) \in SUBSET S
        OBVIOUS
      <3> QED
        BY <1>1, <3>1, FS_Subset, FS_FiniteSubsetsOfFinite
    <2> QED
      BY <2>1
  <1>3. PICK U \in T : \A V \in T : <<V, U>> \notin StrictSubsetOrdering(S)
    <2>1. IsWellFoundedOn(StrictSubsetOrdering(S), FiniteSubsetsOf(S))
      BY FS_StrictSubsetOrderingWellFounded
    <2> HIDE DEF T
    <2> QED
      BY <1>2, <2>1, WFMin
  <1>4. PICK x \in S : U = Above(x)
    BY <1>3
  <1>5. ASSUME NEW y \in S, y > x
        PROVE  FALSE
    <2>1. /\ x \in Int /\ y \in Int
          /\ Above(y) \in T /\ Above(y) \subseteq U /\ y \in U /\ y \notin Above(y)
      <3>1. \A z \in S : z \in Int
        OBVIOUS
      <3>2. Above(y) \in T /\ Above(y) \subseteq Above(x) /\ y \in Above(x) /\ y \notin Above(y)
        <4>1. \A z \in Above(y) : z \in S /\ z > x
          BY <1>5, <3>1
        <4>2. y \in Above(x) /\ y \notin Above(y)
          BY <1>5, <3>1
        <4>3. Above(y) \in T
          BY Zenon
        <4> QED
          BY <4>1, <4>2, <4>3
      <3> HIDE DEF Above, T
      <3> QED
        BY <1>4, <3>1, <3>2
    <2>2. <<Above(y), U>> \in StrictSubsetOrdering(S)
      BY <2>1, <1>4 DEF StrictSubsetOrdering
    <2> QED
      BY <1>3, <2>1, <2>2
  <1> QED
    BY <1>5

\* Nothing takes no characters.
LEMMA NoText == \A n \in Nat : Json(n + 1, n) = 0
  <1> TAKE n \in Nat
  <1> DEFINE f == [i \in (n + 1)..n |-> file[i].size.json]
             Body(D, iter) == [s \in SUBSET D |->
                 IF s = {} THEN 0
                 ELSE LET x == CHOOSE x \in s : TRUE
                      IN  f[x] + iter[s \ {x}]]
             Iter(D) == CHOOSE iter : iter = Body(D, iter)
  <1>1. DOMAIN f = {}
    OBVIOUS
  <1> HIDE DEF f
  <1>2. SumFunction(f) = Iter(DOMAIN f)[DOMAIN f]
    BY Zenon DEF SumFunction, SumFunctionOnSet, FoldFunctionOnSet, MapThenFoldSet
  <1>3. \E iter : iter = Body({}, iter)
    <2> WITNESS [s \in SUBSET {} |-> 0]
    <2> QED
      BY SMT
  <1>4. Iter({}) = Body({}, Iter({}))
    BY <1>3, Zenon
  <1>5. Iter({})[{}] = 0
    BY <1>4, Zenon
  <1> QED
    BY <1>1, <1>2, <1>5 DEF Json, f

\* The line of a fragment is none of those after it, and there are as many lines
\* before a fragment that begins one as there are numbers.
LEMMA Lines ==
  ASSUME ReadTypeOK
  PROVE  /\ \A i \in 0..Len(file) : LineOf(i) \in 0..i /\ LineOf(i) <= Len(file)
         /\ \A l \in Nat : Start(l) \in 1..(Len(file) + 1)
  <1>1. ASSUME NEW n \in Nat, NEW S \in SUBSET (1..n)
        PROVE  Cardinality(S) \in 0..n
    <2>1. IsFiniteSet(1..n) /\ Cardinality(1..n) = n
      BY FS_Interval
    <2>2. IsFiniteSet(S) /\ Cardinality(S) <= n
      BY <2>1, FS_Subset
    <2> QED
      BY <2>2, FS_CardinalityType
  <1>2. Len(file) \in Nat
    BY DEF ReadTypeOK
  <1>3. ASSUME NEW i \in 0..Len(file)
        PROVE  LineOf(i) \in 0..i /\ LineOf(i) <= Len(file)
    BY <1>1, <1>2 DEF LineOf
  <1>4. ASSUME NEW l \in Nat
        PROVE  Start(l) \in 1..(Len(file) + 1)
    <2>1. Cardinality({i \in 1..Len(file) : LineOf(i) < l}) \in 0..Len(file)
      BY <1>1, <1>2
    <2> QED
      BY <1>2, <2>1 DEF Start
  <1> QED
    BY <1>3, <1>4

\* What is kept is of the file, and nothing only if the first fragment is too long.
LEMMA KeptOfFile ==
  ASSUME ReadTypeOK, NEW a \in 1..(Len(file) + 1)
  PROVE  /\ Kept(a) \in Int /\ a - 1 <= Kept(a) /\ Kept(a) <= Len(file)
         /\ Kept(a) = a - 1 /\ a <= Len(file) => ~FitsLimit(a, a)
  <1> DEFINE S == {k \in a..Len(file) : \A b \in a..k : FitsLimit(a, b)}
  <1>1. Len(file) \in Nat
    BY DEF ReadTypeOK
  <1>2. IsFiniteSet(a..Len(file)) /\ Cardinality(a..Len(file)) = Len(file) - a + 1
    <2>1. a \in Int /\ Len(file) \in Int /\ (a > Len(file) => a = Len(file) + 1)
      BY <1>1
    <2>2. /\ IsFiniteSet(a..Len(file))
          /\ Cardinality(a..Len(file)) = IF a > Len(file) THEN 0 ELSE Len(file) - a + 1
      BY <2>1, FS_Interval
    <2> QED
      BY <2>1, <2>2
  <1>3. S \in SUBSET (a..Len(file))
    OBVIOUS
  <1>4. /\ IsFiniteSet(S) /\ Cardinality(S) \in Nat
        /\ Cardinality(S) <= Len(file) - a + 1
    BY <1>2, <1>3, FS_Subset, FS_CardinalityType
  <1>5. Kept(a) = a - 1 + Cardinality(S)
    BY DEF Kept
  <1>6. ASSUME Cardinality(S) = 0, a <= Len(file)
        PROVE  ~FitsLimit(a, a)
    <2>1. S = {}
      BY <1>4, <1>6, FS_EmptySet
    <2>2. a \in a..Len(file) /\ a..a = {a}
      BY <1>1, <1>6
    <2> QED
      BY <2>1, <2>2
  <1> HIDE DEF S
  <1> QED
    BY <1>1, <1>4, <1>5, <1>6

\* Where there is a cut, one is the last.
LEMMA CutIsCut ==
  ASSUME ReadTypeOK, NEW a \in 1..(Len(file) + 1), Cuts(a) # {}
  PROVE  Cut(a) \in Cuts(a) /\ Cut(a) \in a..Len(file)
  <1>1. Len(file) \in Nat
    BY DEF ReadTypeOK
  <1>2. Cuts(a) \subseteq a..Len(file)
    BY <1>1, KeptOfFile DEF Cuts
  <1>3. Cuts(a) \subseteq 0..Len(file)
    BY <1>1, <1>2
  <1>4. \E b \in Cuts(a) : \A k \in Cuts(a) : k <= b
    BY <1>1, <1>3, Greatest
  <1> QED
    BY <1>2, <1>4 DEF Cut

\* One text and the next are one text.
LEMMA TextsMeet ==
  ASSUME ReadTypeOK, NEW a \in 1..(Len(file) + 1), NEW b \in (a - 1)..Len(file)
  PROVE  /\ Text(a, b) \in Seq(1..Len(file))
         /\ Text(1, a - 1) \o Text(a, b) = Text(1, b)
  <1> DEFINE places == [i \in 1..Len(file) |-> i]
  <1>1. Len(file) \in Nat
    BY DEF ReadTypeOK
  <1>2. places \in Seq(1..Len(file)) /\ Len(places) = Len(file)
    BY <1>1
  <1> HIDE DEF places
  <1>3. SubSeq(places, a, b) \in Seq(1..Len(file))
    <2>1. a \in Int /\ b \in Int /\ \A i \in a..b : i \in 1..Len(file)
      BY <1>1
    <2>2. \A i \in 1..Len(file) : places[i] \in 1..Len(file)
      BY DEF places
    <2> QED
      BY <2>1, <2>2, SubSeqProperties
  <1>4. SubSeq(places, 1, a - 1) \o SubSeq(places, (a - 1) + 1, b) = SubSeq(places, 1, b)
    <2>1. /\ 1 \in 1..(Len(places) + 1) /\ a - 1 \in 1 - 1..Len(places)
          /\ b \in (a - 1)..Len(places)
      BY <1>1, <1>2
    <2> QED
      BY <1>2, <2>1, ConcatAdjacentSubSeq
  <1>5. (a - 1) + 1 = a
    BY <1>1
  <1> QED
    BY <1>3, <1>4, <1>5 DEF Text, places

\* Until a client has asked it has nothing.  If no line is split, a page ends with
\* a line, and what the client has are the lines before its offset.
ReadInv ==
    /\ ReadTypeOK
    /\ reading = "idle" => file = <<>> /\ offset = 1 /\ got = <<>>
    /\ ~Separators => /\ \A i \in 1..Len(file) : file[i].numbered
                      /\ got = Text(1, IF reading = "whole" THEN Len(file) ELSE offset - 1)
                      /\ RefusedOnlyOversized

LEMMA EmptyText == file = <<>> => Text(1, 0) = <<>>
  BY DEF Text

LEMMA ReadStart == ReadInit => ReadInv
  <1> SUFFICES ASSUME ReadInit PROVE ReadInv
    OBVIOUS
  <1>1. file = <<>> /\ offset = 1 /\ got = <<>> /\ reads = 0 /\ reading = "idle"
    BY DEF ReadInit
  <1>2. ReadTypeOK
    BY <1>1, ReadAssumption DEF ReadAssumption, ReadTypeOK, MaxReads
  <1> QED
    BY <1>1, <1>2, EmptyText DEF ReadInv, RefusedOnlyOversized

\* If no line is split, fragments are lines.
LEMMA FragmentsAreLines ==
  ASSUME ReadInv, ~Separators
  PROVE  /\ \A i \in 0..Len(file) : LineOf(i) = i
         /\ \A l \in 1..(Len(file) + 1) : Start(l) = l
  <1>1. Len(file) \in Nat
    BY DEF ReadInv, ReadTypeOK
  <1>2. ASSUME NEW i \in 0..Len(file)
        PROVE  LineOf(i) = i
    <2>1. {j \in 1..i : file[j].numbered} = 1..i
      BY <1>1 DEF ReadInv
    <2>2. Cardinality(1..i) = i
      BY <1>1, FS_Interval
    <2> QED
      BY <2>1, <2>2 DEF LineOf
  <1>3. ASSUME NEW l \in 1..(Len(file) + 1)
        PROVE  Start(l) = l
    <2>1. {i \in 1..Len(file) : LineOf(i) < l} = 1..(l - 1)
      BY <1>1, <1>2
    <2>2. Cardinality(1..(l - 1)) = l - 1
      <3>1. 1 \in Int /\ l - 1 \in Int /\ (1 > l - 1 => l - 1 = 0)
        BY <1>1
      <3>2. Cardinality(1..(l - 1)) = IF 1 > l - 1 THEN 0 ELSE (l - 1) - 1 + 1
        BY <3>1, FS_Interval
      <3> QED
        BY <3>1, <3>2
    <2>3. Start(l) = 1 + (l - 1)
      BY <2>1, <2>2 DEF Start
    <2> QED
      BY <1>1, <2>3
  <1> QED
    BY <1>2, <1>3

\* What is read of a file does not depend on who reads it.
LEMMA FileKept ==
  ASSUME file' = file
  PROVE  /\ \A x, y : Text(x, y)' = Text(x, y)
         /\ reading' = reading /\ RefusedOnlyOversized => RefusedOnlyOversized'
         /\ \A l \in 1..LineOf(Len(file)) :
                Oversized(Start(l), Start(l + 1) - 1) => RefusedOnlyOversized'
  <1>1. \A x, y : Text(x, y)' = Text(x, y)
    BY DEF Text
  <1>2. LineOf(Len(file))' = LineOf(Len(file))
    BY DEF LineOf
  <1>3. \A l : Start(l)' = Start(l)
    BY DEF Start, LineOf
  <1>4. \A x, y : Raw(x, y)' = Raw(x, y) /\ Json(x, y)' = Json(x, y)
    BY DEF Raw, Json
  <1>5. \A x, y : Oversized(x, y)' <=> Oversized(x, y)
    BY <1>4 DEF Oversized, FitsLimit, FitsPage
  <1>6. \A l : Oversized(Start(l), Start(l + 1) - 1)' <=> Oversized(Start(l), Start(l + 1) - 1)
    BY <1>3, <1>4 DEF Oversized, FitsLimit, FitsPage
  <1> QED
    BY <1>1, <1>2, <1>6 DEF RefusedOnlyOversized

LEMMA ReadStep == ReadInv /\ [ReadNext]_readVars => ReadInv'
  <1> SUFFICES ASSUME ReadInv, [ReadNext]_readVars PROVE ReadInv'
    OBVIOUS
  <1>0. /\ Len(file) \in Nat /\ offset \in 1..(Len(file) + 1) /\ MaxReads \in Nat
        /\ got \in Seq(1..Len(file)) /\ ReadTypeOK
    BY ReadAssumption DEF ReadInv, ReadTypeOK, ReadAssumption, MaxReads
  <1>a. PICK a : a = Start(offset)
    OBVIOUS
  <1>b. a \in 1..(Len(file) + 1) /\ (~Separators => a = offset)
    BY <1>0, <1>a, Lines, FragmentsAreLines
  <1>1. CASE ReadBegins
    <2>1. PICK n \in 0..MaxFragments : file' \in Contents(n)
      BY <1>1 DEF ReadBegins
    <2>2. /\ file' \in Seq(Fragment) /\ Len(file') = n /\ n <= MaxFragments
          /\ ~Separators => \A i \in 1..Len(file') : file'[i].numbered
      BY <2>1, ReadAssumption DEF Contents, ReadAssumption
    <2>3. /\ UNCHANGED <<offset, got, reads>> /\ reading' = "reading"
          /\ offset = 1 /\ got = <<>>
      BY <1>1 DEF ReadBegins, ReadInv
    <2>4. ReadTypeOK'
      BY <1>0, <2>2, <2>3 DEF ReadTypeOK, MaxReads
    <2>5. got' = Text(1, offset - 1)'
      <3>1. Text(1, 0)' = <<>>
        BY DEF Text
      <3> QED
        BY <2>3, <3>1
    <2> QED
      BY <2>2, <2>3, <2>4, <2>5 DEF ReadInv, RefusedOnlyOversized
  <1>2. CASE ReadWhole
    <2>1. Len(file) \in (a - 1)..Len(file)
      BY <1>0, <1>b
    <2>2. /\ Text(a, Len(file)) \in Seq(1..Len(file))
          /\ Text(1, a - 1) \o Text(a, Len(file)) = Text(1, Len(file))
      BY <1>0, <1>b, <2>1, TextsMeet
    <2>3. /\ got' = got \o Text(a, Len(file)) /\ reading' = "whole" /\ reading = "reading"
          /\ UNCHANGED <<file, offset, reads>>
      BY <1>2, <1>a DEF ReadWhole
    <2>4. ReadTypeOK'
      BY <1>0, <2>2, <2>3 DEF ReadTypeOK, MaxReads
    <2>5. ~Separators => got' = Text(1, Len(file))
      BY <1>b, <2>2, <2>3 DEF ReadInv
    <2>6. Text(1, Len(file))' = Text(1, Len(file))
      BY <2>3 DEF Text
    <2> QED
      BY <2>3, <2>4, <2>5, <2>6 DEF ReadInv, RefusedOnlyOversized
  <1>3. CASE ReadPage
    <2>1. PICK b \in a..Len(file) : b = Cut(a)
      BY <1>0, <1>3, <1>a, <1>b, CutIsCut DEF ReadPage
    <2>2. b \in (a - 1)..Len(file) /\ b \in 0..Len(file)
      BY <1>0, <1>b, <2>1
    <2>3. Text(a, b) \in Seq(1..Len(file)) /\ Text(1, a - 1) \o Text(a, b) = Text(1, b)
      BY <1>0, <1>b, <2>2, TextsMeet
    <2>4. /\ NextOffset(b) \in 1..(Len(file) + 1)
          /\ ~Separators => NextOffset(b) = b + 1
      <3>1. LineOf(b) \in 0..b /\ LineOf(b) <= Len(file) /\ (~Separators => LineOf(b) = b)
        BY <1>0, <2>2, Lines, FragmentsAreLines
      <3> QED
        BY <1>0, <2>2, <3>1 DEF NextOffset
    <2>5. /\ got' = got \o Text(a, b) /\ offset' = NextOffset(b) /\ reading = "reading"
          /\ reads' = reads + 1 /\ reads < MaxReads /\ UNCHANGED <<file, reading>>
      BY <1>3, <1>a, <2>1 DEF ReadPage
    <2>6. ReadTypeOK'
      BY <1>0, <2>3, <2>4, <2>5 DEF ReadTypeOK, MaxReads
    <2>7. ASSUME ~Separators
          PROVE  got' = Text(1, b) /\ offset' - 1 = b
      <3>1. got = Text(1, a - 1)
        BY <1>b, <2>5, <2>7 DEF ReadInv
      <3>2. got' = Text(1, b)
        BY <2>3, <2>5, <3>1
      <3>3. b + 1 - 1 = b
        BY <2>2
      <3> QED
        BY <2>4, <2>5, <2>7, <3>2, <3>3
    <2>8. ~Separators => got' = Text(1, offset - 1)'
      BY <2>5, <2>7 DEF Text
    <2> QED
      BY <2>5, <2>6, <2>8 DEF ReadInv, RefusedOnlyOversized
  <1>4. CASE ReadRefused
    <2>1. /\ UNCHANGED <<file, offset, got, reads>> /\ reading = "reading" /\ reading' = "refused"
          /\ ~FitsWhole(a) /\ (Cuts(a) # {} => ~file[Cut(a)].numbered)
      BY <1>4, <1>a DEF ReadRefused
    <2>2. ReadTypeOK'
      BY <1>0, <2>1 DEF ReadTypeOK, MaxReads
    <2>3. Text(1, offset - 1)' = Text(1, offset - 1)
      BY <2>1 DEF Text
    <2>4. ASSUME ~Separators
          PROVE  RefusedOnlyOversized'
      <3>1. Cuts(a) = {}
        <4>1. ASSUME Cuts(a) # {}
              PROVE  FALSE
          <5>1. Cut(a) \in a..Len(file)
            BY <1>0, <1>b, <4>1, CutIsCut
          <5>2. Cut(a) \in 1..Len(file)
            BY <1>0, <1>b, <5>1
          <5> QED
            BY <2>1, <2>4, <4>1, <5>2 DEF ReadInv
        <4> QED
          BY <4>1
      <3>2. a # Len(file) + 1
        <4>1. Json(Len(file) + 1, Len(file)) = 0
          BY <1>0, NoText
        <4> QED
          BY <2>1, <4>1, ReadAssumption DEF FitsWhole, ReadAssumption
      <3>3. a \in 1..Len(file) /\ a + 1 \in 1..(Len(file) + 1)
        BY <1>0, <1>b, <3>2
      <3>4. Oversized(a, a)
        <4>1. Kept(a) \in Int /\ a - 1 <= Kept(a) /\ (Kept(a) = a - 1 => ~FitsLimit(a, a))
          BY <1>0, <1>b, <3>3, KeptOfFile
        <4>2. Kept(a) # a - 1 => a \in a..Kept(a)
          BY <1>b, <3>3, <4>1
        <4> QED
          BY <3>1, <4>1, <4>2 DEF Cuts, Oversized
      <3>5. LineOf(Len(file)) = Len(file) /\ Start(a) = a /\ Start(a + 1) = a + 1
        <4>1. Len(file) \in 0..Len(file) /\ a \in 1..(Len(file) + 1)
          BY <1>0, <3>3
        <4>2. /\ \A i \in 0..Len(file) : LineOf(i) = i
              /\ \A l \in 1..(Len(file) + 1) : Start(l) = l
          BY <2>4, FragmentsAreLines
        <4> QED
          BY <3>3, <4>1, <4>2
      <3>6. (a + 1) - 1 = a
        BY <3>3
      <3>7. a \in 1..LineOf(Len(file)) /\ Oversized(Start(a), Start(a + 1) - 1)
        BY <3>3, <3>4, <3>5, <3>6
      <3> QED
        BY <2>1, <3>7, FileKept
    <2> QED
      BY <2>1, <2>2, <2>3, <2>4 DEF ReadInv
  <1>5. CASE UNCHANGED readVars
    <2>1. UNCHANGED <<file, offset, got, reads, reading>>
      BY <1>5 DEF readVars
    <2>2. ReadTypeOK'
      BY <1>0, <2>1 DEF ReadTypeOK, MaxReads
    <2>3. Text(1, IF reading = "whole" THEN Len(file) ELSE offset - 1)'
              = Text(1, IF reading = "whole" THEN Len(file) ELSE offset - 1)
      BY <2>1 DEF Text
    <2> QED
      BY <2>1, <2>2, <2>3, FileKept DEF ReadInv
  <1> QED
    BY <1>1, <1>2, <1>3, <1>4, <1>5 DEF ReadNext, ReadOn

\* Of a file in which no line contains a separator of Python's, whatever its lines
\* take, a client that follows next_offset gets every line once and in order, and is
\* refused only for a line that fits no page (_structured_read_file_result).
THEOREM ReadStaysFaithful == ReadSpec => [](~Separators => ReadFaithful)
  <1>1. ReadInv => (~Separators => ReadFaithful)
    BY DEF ReadInv, ReadFaithful, ReadComplete
  <1> QED
    BY <1>1, ReadStart, ReadStep, PTL DEF ReadSpec

\* Of any file, the fragments come in order and none comes twice.
InOrder(s) == \A i, j \in 1..Len(s) : i < j => s[i] < s[j]

\* What the client has lies before the line it asks for next.
OrderInv ==
    /\ ReadInv /\ InOrder(got)
    /\ reading # "whole" => \A i \in 1..Len(got) : got[i] < Start(offset)

LEMMA TextOrdered ==
  ASSUME ReadTypeOK, InOrder(got),
         NEW a \in 1..(Len(file) + 1), NEW b \in (a - 1)..Len(file),
         \A i \in 1..Len(got) : got[i] < a
  PROVE  /\ InOrder(got \o Text(a, b))
         /\ \A i \in 1..Len(got \o Text(a, b)) : (got \o Text(a, b))[i] <= b
  <1> DEFINE places == [i \in 1..Len(file) |-> i]
             t == Text(a, b)
  <1>1. Len(file) \in Nat /\ got \in Seq(1..Len(file)) /\ Len(got) \in Nat
    BY DEF ReadTypeOK
  <1>2. /\ t \in Seq(1..Len(file)) /\ Len(t) = b - a + 1
        /\ \A i \in 1..(b - a + 1) : t[i] = a + i - 1
    <2>1. a \in Int /\ b \in Int /\ b >= a - 1 /\ \A i \in a..b : i \in 1..Len(file)
      BY <1>1
    <2>2. \A i \in 1..Len(file) : places[i] = i
      OBVIOUS
    <2> HIDE DEF places
    <2>3. \A i \in a..b : places[i] \in 1..Len(file)
      BY <2>1, <2>2
    <2>4. /\ t \in Seq(1..Len(file)) /\ Len(t) = IF a <= b THEN b - a + 1 ELSE 0
          /\ \A i \in 1..(b - a + 1) : t[i] = places[a + i - 1]
      BY <2>1, <2>3, SubSeqProperties DEF Text, places
    <2>5. \A i \in 1..(b - a + 1) : a + i - 1 \in 1..Len(file)
      BY <2>1
    <2>6. \A i \in 1..(b - a + 1) : t[i] = a + i - 1
      BY <2>2, <2>4, <2>5
    <2>7. Len(t) = b - a + 1
      BY <2>1, <2>4
    <2> HIDE DEF t
    <2> QED
      BY <2>4, <2>6, <2>7
  <1> HIDE DEF t, places
  <1>3. /\ Len(got \o t) = Len(got) + (b - a + 1)
        /\ \A i \in 1..Len(got \o t) :
              (got \o t)[i] = IF i <= Len(got) THEN got[i] ELSE t[i - Len(got)]
    <2>1. /\ Len(got \o t) = Len(got) + Len(t)
          /\ \A i \in 1..(Len(got) + Len(t)) :
                (got \o t)[i] = IF i <= Len(got) THEN got[i] ELSE t[i - Len(got)]
      BY <1>1, <1>2, ConcatProperties
    <2> QED
      BY <1>2, <2>1
  <1>4. ASSUME NEW i \in 1..Len(got \o t)
        PROVE  /\ i <= Len(got) => (got \o t)[i] = got[i] /\ i \in 1..Len(got)
               /\ i > Len(got) => (got \o t)[i] = a + (i - Len(got)) - 1
    <2>1. i > Len(got) => i - Len(got) \in 1..(b - a + 1)
      BY <1>1, <1>3
    <2> QED
      BY <1>1, <1>2, <1>3, <2>1
  <1>5. ASSUME NEW i \in 1..Len(got \o t)
        PROVE  (got \o t)[i] <= b
    <2>1. CASE i <= Len(got)
      <3>1. (got \o t)[i] < a /\ (got \o t)[i] \in 1..Len(file)
        BY <1>1, <1>4, <2>1
      <3> QED
        BY <1>1, <3>1
    <2>2. CASE i > Len(got)
      BY <1>1, <1>3, <1>4, <2>2
    <2> QED
      BY <1>1, <2>1, <2>2
  <1>6. ASSUME NEW i \in 1..Len(got \o t), NEW j \in 1..Len(got \o t), i < j
        PROVE  (got \o t)[i] < (got \o t)[j]
    <2>1. CASE j <= Len(got)
      BY <1>1, <1>4, <1>6, <2>1 DEF InOrder
    <2>2. CASE i <= Len(got) /\ j > Len(got)
      <3>1. (got \o t)[i] < a /\ (got \o t)[i] \in 1..Len(file)
        BY <1>1, <1>4, <2>2
      <3>2. (got \o t)[j] = a + (j - Len(got)) - 1 /\ j - Len(got) >= 1
        BY <1>1, <1>4, <2>2
      <3> QED
        BY <1>1, <3>1, <3>2
    <2>3. CASE i > Len(got)
      <3>1. (got \o t)[i] = a + (i - Len(got)) - 1 /\ (got \o t)[j] = a + (j - Len(got)) - 1
        <4>1. j > Len(got)
          BY <1>1, <1>6, <2>3
        <4> QED
          BY <1>4, <2>3, <4>1
      <3>2. a \in Int /\ i \in Int /\ j \in Int
        OBVIOUS
      <3> QED
        BY <1>1, <1>6, <3>1, <3>2
    <2> QED
      BY <1>1, <1>6, <2>1, <2>2, <2>3
  <1> QED
    BY <1>5, <1>6 DEF InOrder, t

\* The line after that of a fragment begins behind it.
LEMMA NextBehind ==
  ASSUME ReadTypeOK, NEW b \in 1..Len(file)
  PROVE  b < Start(NextOffset(b))
  <1>1. Len(file) \in Nat
    BY DEF ReadTypeOK
  <1> DEFINE Before == {i \in 1..Len(file) : LineOf(i) < LineOf(b) + 1}
  <1>2. ASSUME NEW i \in 1..b
        PROVE  i \in Before
    <2>1. IsFiniteSet({j \in 1..b : file[j].numbered})
      <3>1. IsFiniteSet(1..b)
        BY FS_Interval
      <3> QED
        BY <3>1, FS_Subset
    <2>2. {j \in 1..i : file[j].numbered} \in SUBSET {j \in 1..b : file[j].numbered}
      OBVIOUS
    <2>3. LineOf(i) <= LineOf(b)
      BY <2>1, <2>2, FS_Subset DEF LineOf
    <2>4. i \in 0..Len(file) /\ b \in 0..Len(file) /\ i \in 1..Len(file)
      BY <1>1
    <2>5. LineOf(i) \in Nat /\ LineOf(b) \in Nat
      BY <2>4, Lines
    <2> QED
      BY <2>3, <2>4, <2>5
  <1>3. IsFiniteSet(Before)
    <2>1. IsFiniteSet(1..Len(file)) /\ Before \in SUBSET (1..Len(file))
      BY <1>1, FS_Interval
    <2> QED
      BY <2>1, FS_Subset
  <1>4. 1..b \in SUBSET Before /\ Cardinality(1..b) = b
    BY <1>2, FS_Interval
  <1>5. b <= Cardinality(Before) /\ Cardinality(Before) \in Nat
    BY <1>3, <1>4, FS_Subset, FS_CardinalityType
  <1>6. Start(NextOffset(b)) = 1 + Cardinality(Before)
    BY DEF Start, NextOffset
  <1> HIDE DEF Before
  <1> QED
    BY <1>5, <1>6

\* Whatever the lines contain, a client that follows next_offset gets no fragment
\* twice and each behind the one before: of a line with a separator it may lack the
\* rest (read_pages.cfg), but nothing else goes wrong.
THEOREM ReadInOrder == ReadSpec => []InOrder(got)
  <1>1. ReadInit => OrderInv
    <2> SUFFICES ASSUME ReadInit PROVE OrderInv
      OBVIOUS
    <2>1. got = <<>> /\ Len(got) = 0
      BY DEF ReadInit
    <2> QED
      BY <2>1, ReadStart DEF OrderInv, InOrder
  <1>2. OrderInv /\ [ReadNext]_readVars => OrderInv'
    <2> SUFFICES ASSUME OrderInv, [ReadNext]_readVars PROVE OrderInv'
      OBVIOUS
    <2>1. /\ ReadInv /\ ReadInv' /\ ReadTypeOK /\ InOrder(got) /\ Len(file) \in Nat
          /\ offset \in 1..(Len(file) + 1) /\ Start(offset) \in 1..(Len(file) + 1)
      BY ReadStep, Lines DEF OrderInv, ReadInv, ReadTypeOK
    <2>2. PICK a : a = Start(offset)
      OBVIOUS
    <2>3. CASE ReadBegins
      <3>1. got' = <<>> /\ Len(got') = 0
        BY <2>1, <2>3 DEF ReadBegins, ReadInv
      <3> QED
        BY <2>1, <3>1 DEF OrderInv, InOrder
    <2>4. CASE ReadWhole
      <3>1. /\ got' = got \o Text(a, Len(file)) /\ reading' = "whole"
            /\ \A i \in 1..Len(got) : got[i] < a
        BY <2>2, <2>4 DEF ReadWhole, OrderInv
      <3>2. Len(file) \in (a - 1)..Len(file) /\ a \in 1..(Len(file) + 1)
        BY <2>1, <2>2
      <3>3. InOrder(got \o Text(a, Len(file)))
        BY <2>1, <3>1, <3>2, TextOrdered
      <3> QED
        BY <2>1, <3>1, <3>3 DEF OrderInv
    <2>5. CASE ReadPage
      <3>1. PICK b \in a..Len(file) : b = Cut(a)
        BY <2>1, <2>2, <2>5, CutIsCut DEF ReadPage
      <3>2. /\ got' = got \o Text(a, b) /\ offset' = NextOffset(b) /\ file' = file
            /\ \A i \in 1..Len(got) : got[i] < a
        BY <2>2, <2>5, <3>1 DEF ReadPage, OrderInv
      <3>3. b \in (a - 1)..Len(file) /\ b \in 1..Len(file) /\ a \in 1..(Len(file) + 1)
        BY <2>1, <2>2, <3>1
      <3>4. /\ InOrder(got \o Text(a, b))
            /\ \A i \in 1..Len(got \o Text(a, b)) : (got \o Text(a, b))[i] <= b
        BY <2>1, <3>2, <3>3, TextOrdered
      <3>5. Start(offset)' = Start(NextOffset(b))
        BY <3>2 DEF Start, LineOf
      <3>6. /\ b < Start(NextOffset(b)) /\ Start(NextOffset(b)) \in Nat
            /\ got' \in Seq(1..Len(file))
        <4>1. Start(NextOffset(b)) \in 1..(Len(file) + 1)
          <5>1. NextOffset(b) \in Nat
            BY <2>1, <3>2 DEF ReadInv, ReadTypeOK
          <5> QED
            BY <2>1, <5>1, Lines
        <4>2. got' \in Seq(1..Len(file))
          BY <2>1, <3>2 DEF ReadInv, ReadTypeOK
        <4> QED
          BY <2>1, <3>3, <4>1, <4>2, NextBehind
      <3>7. \A i \in 1..Len(got') : got'[i] < Start(offset)'
        BY <3>2, <3>3, <3>4, <3>5, <3>6
      <3> QED
        BY <2>1, <3>2, <3>4, <3>7 DEF OrderInv
    <2>6. CASE ReadRefused \/ UNCHANGED readVars
      <3>1. file' = file /\ offset' = offset /\ got' = got /\ (reading = "whole" => reading' = "whole")
        BY <2>6 DEF ReadRefused, readVars
      <3>2. Start(offset)' = Start(offset)
        BY <3>1 DEF Start, LineOf
      <3> QED
        BY <2>1, <3>1, <3>2 DEF OrderInv, InOrder
    <2> QED
      BY <2>3, <2>4, <2>5, <2>6 DEF ReadNext, ReadOn
  <1>3. OrderInv => InOrder(got)
    BY DEF OrderInv
  <1> QED
    BY <1>1, <1>2, <1>3, PTL DEF ReadSpec

-----------------------------------------------------------------------------
(* The startup context. *)

\* The versions of the open inode since it was compared with the stat: the first
\* half was read between the two, the second after the first.
SinceStat ==
    /\ reader \in {"first", "second", "after"} =>
          fd \in Inode /\ stats[at].version <= inode[fd].version
    /\ reader \in {"second", "after"} =>
          stats[at].version <= raw[at].first /\ raw[at].first <= inode[fd].version
    /\ reader = "after" =>
          stats[at].version <= raw[at].second /\ raw[at].second <= inode[fd].version

StartupTypes ==
    /\ inode \in [Inode -> [size : Nat, version : Nat]]
    /\ writes \in Nat /\ \A n \in Inode : inode[n].version <= writes
    /\ names \in [Paths -> Inode \cup NotAFile]
    /\ at \in Paths /\ total \in Nat /\ total <= MaxBytes
    /\ stats \in [Paths -> [ino : Inode \cup {"none"}, size : Nat, version : Nat]]
    /\ raw \in [Paths -> [first : Nat, second : Nat]]

AtRead == {"before", "first", "second", "after"}

\* The files before the one at hand are read well.
FilesRead ==
    /\ reader \in AtRead \cup {"open"} => \A i \in Paths : i < at => OneVersion(i)
    /\ reader = "done" => \A i \in Paths : OneVersion(i)

StartupInv ==
    /\ StartupTypes
    /\ reader \in AtRead => fd \in Inode
    /\ SinceStat
    /\ FilesRead

LEMMA StartupStart == StartupInit => StartupInv
  BY StartupAssumption
     DEF StartupAssumption, StartupInit, StartupInv, StartupTypes, SinceStat, FilesRead, AtRead,
         Paths, NoStat, NotAFile

\* An edit leaves the reader where it is, and no open inode gets an older version.
Edit ==
    /\ UNCHANGED <<stats, total, at, fd, raw, reader>>
    /\ fd \in Inode => inode[fd].version <= inode'[fd].version
    /\ StartupTypes'

LEMMA Edits ==
  ASSUME StartupInv, Edit
  PROVE  StartupInv'
  <1> USE DEF StartupInv, StartupTypes, Edit
  <1>1. (reader \in AtRead => fd \in Inode)' /\ FilesRead'
    BY DEF FilesRead, AtRead, OneVersion
  <1>2. SinceStat'
    BY DEF SinceStat, AtRead
  <1> QED
    BY <1>1, <1>2

LEMMA WritersEdit ==
  ASSUME StartupInv,
         \/ \E n \in Inode : Rewrite(n)
         \/ \E i \in Paths, n \in Inode : Replace(i, n)
         \/ \E i \in Paths : Unlink(i)
  PROVE  Edit
  <1> USE StartupAssumption DEF StartupAssumption, StartupInv, StartupTypes, Edit
  <1>1. ASSUME NEW n \in Inode, NEW z \in FileSizes, writes' = writes + 1,
               inode' = [inode EXCEPT ![n] = [size |-> z, version |-> writes + 1]]
        PROVE  /\ inode' \in [Inode -> [size : Nat, version : Nat]]
               /\ writes' \in Nat /\ \A m \in Inode : inode'[m].version <= writes'
               /\ \A m \in Inode : inode[m].version <= inode'[m].version
    <2>1. [size |-> z, version |-> writes + 1] \in [size : Nat, version : Nat]
      OBVIOUS
    <2>2. inode'[n].version = writes + 1 /\ \A m \in Inode \ {n} : inode'[m] = inode[m]
      BY <1>1
    <2> QED
      BY <1>1, <2>1, <2>2
  <1>2. ASSUME NEW n \in Inode, Rewrite(n)
        PROVE  Edit
    BY <1>1, <1>2 DEF Rewrite
  <1>3. ASSUME NEW i \in Paths, NEW n \in Inode, Replace(i, n)
        PROVE  Edit
    BY <1>1, <1>3 DEF Replace
  <1>4. ASSUME NEW i \in Paths, Unlink(i)
        PROVE  Edit
    BY <1>4 DEF Unlink
  <1> QED
    BY <1>2, <1>3, <1>4

LEMMA StartupStep == StartupInv /\ [StartupNext]_startupVars => StartupInv'
  <1> SUFFICES ASSUME StartupInv, [StartupNext]_startupVars PROVE StartupInv'
    OBVIOUS
  <1> USE StartupAssumption
      DEF StartupAssumption, StartupInv, SinceStat, FilesRead, AtRead, diskVars
  <1>1. CASE StartupBegins
    <2>1. StartupTypes'
      BY <1>1 DEF StartupBegins, StartupTypes
    <2> QED
      BY <1>1, <2>1 DEF StartupBegins
  <1>2. CASE StatFile
    <2>1. Stat(at) \in [ino : Inode \cup {"none"}, size : Nat, version : Nat]
      BY <1>2 DEF StatFile, Stat, StartupTypes
    <2>2. total' \in Nat /\ total' <= MaxBytes
      BY <1>2, <2>1 DEF StatFile, StartupTypes
    <2>3. stats' \in [Paths -> [ino : Inode \cup {"none"}, size : Nat, version : Nat]]
      BY <1>2, <2>1 DEF StatFile, StartupTypes
    <2>4. at' \in Paths /\ reader' \in {"open", "stat"} /\ (reader' = "open" => at' = 1)
      <3>1. at \in 1..Files /\ Files \in Nat \ {0}
        BY DEF StartupTypes, Paths
      <3>2. CASE at = Files
        BY <1>2, <3>1, <3>2 DEF StatFile, Paths
      <3>3. CASE at # Files
        BY <1>2, <3>1, <3>3 DEF StatFile, Paths
      <3> QED
        BY <3>2, <3>3
    <2>5. StartupTypes'
      BY <1>2, <2>2, <2>3, <2>4 DEF StatFile, StartupTypes
    <2> QED
      BY <2>4, <2>5 DEF Paths
  <1>3. CASE OpenFile
    BY <1>3 DEF OpenFile, StartupTypes, OneVersion
  <1>4. CASE FstatBefore
    BY <1>4 DEF FstatBefore, SameAsStat, StartupTypes, OneVersion
  <1>5. CASE ReadFirst
    <2>1. /\ at \in Paths /\ raw[at] \in [first : Nat, second : Nat]
          /\ inode[fd].version \in Nat /\ stats[at].version <= inode[fd].version
      BY <1>5 DEF ReadFirst, StartupTypes
    <2>2. /\ raw' \in [Paths -> [first : Nat, second : Nat]]
          /\ raw'[at].first = inode[fd].version
          /\ \A i \in Paths \ {at} : raw'[i] = raw[i]
      BY <1>5, <2>1 DEF ReadFirst, StartupTypes
    <2>3. /\ UNCHANGED <<inode, names, writes, stats, total, at, fd>>
          /\ reader = "first" /\ reader' = "second"
      BY <1>5 DEF ReadFirst
    <2>4. StartupTypes'
      BY <2>2, <2>3 DEF StartupTypes
    <2>5. FilesRead'
      <3>1. ASSUME NEW i \in Paths, i < at
            PROVE  OneVersion(i)'
        <4>1. OneVersion(i)
          BY <2>3, <3>1
        <4>2. i # at
          BY <2>1, <3>1 DEF Paths
        <4> QED
          BY <2>2, <2>3, <4>1, <4>2 DEF OneVersion
      <3> QED
        BY <2>3, <3>1
    <2>6. SinceStat' /\ fd' \in Inode
      BY <2>1, <2>2, <2>3
    <2> QED
      BY <2>4, <2>5, <2>6
  <1>6. CASE ReadSecond
    <2>1. /\ at \in Paths /\ raw[at] \in [first : Nat, second : Nat]
          /\ inode[fd].version \in Nat /\ stats[at].version <= inode[fd].version
      BY <1>6 DEF ReadSecond, StartupTypes
    <2>2. /\ raw' \in [Paths -> [first : Nat, second : Nat]]
          /\ raw'[at].first = raw[at].first /\ raw'[at].second = inode[fd].version
          /\ \A i \in Paths \ {at} : raw'[i] = raw[i]
      BY <1>6, <2>1 DEF ReadSecond, StartupTypes
    <2>3. /\ UNCHANGED <<inode, names, writes, stats, total, at, fd>>
          /\ reader = "second" /\ reader' = "after"
      BY <1>6 DEF ReadSecond
    <2>4. StartupTypes'
      BY <2>2, <2>3 DEF StartupTypes
    <2>5. FilesRead'
      <3>1. ASSUME NEW i \in Paths, i < at
            PROVE  OneVersion(i)'
        <4>1. OneVersion(i)
          BY <2>3, <3>1
        <4>2. i # at
          BY <2>1, <3>1 DEF Paths
        <4> QED
          BY <2>2, <2>3, <4>1, <4>2 DEF OneVersion
      <3> QED
        BY <2>3, <3>1
    <2>6. SinceStat' /\ fd' \in Inode
      BY <2>1, <2>2, <2>3
    <2> QED
      BY <2>4, <2>5, <2>6
  <1>7. CASE FstatAfter
    <2>1. /\ at \in Paths /\ raw[at] \in [first : Nat, second : Nat]
          /\ inode[fd].version \in Nat /\ stats[at].version = inode[fd].version
      BY <1>7 DEF FstatAfter, UnchangedSince, StartupTypes
    <2>2. OneVersion(at)
      BY <1>7, <2>1 DEF FstatAfter, OneVersion
    <2>3. /\ UNCHANGED <<inode, names, writes, stats, total, raw>>
          /\ reader' \in {"done", "open"}
      BY <1>7 DEF FstatAfter
    <2>4. at' \in Paths /\ \A i \in Paths : i < at' \/ reader' = "done" => i <= at
      BY <1>7, <2>1 DEF FstatAfter, Paths
    <2>5. StartupTypes'
      BY <2>3, <2>4 DEF StartupTypes
    <2>6. \A i \in Paths : i <= at => OneVersion(i)
      BY <1>7, <2>1, <2>2 DEF FstatAfter, Paths
    <2>7. \A i \in Paths : OneVersion(i)' <=> OneVersion(i)
      BY <2>3 DEF OneVersion
    <2> QED
      BY <2>3, <2>4, <2>5, <2>6, <2>7
  <1>8. CASE StartupFails
    BY <1>8 DEF StartupFails, StartupTypes
  <1>9. CASE UNCHANGED startupVars
    BY <1>9 DEF startupVars, StartupTypes, OneVersion
  <1> QED
    BY <1>1, <1>2, <1>3, <1>4, <1>5, <1>6, <1>7, <1>8, <1>9, WritersEdit, Edits DEF StartupNext

\* The bounded types, of the numbers above all: no version is newer than the edits.
LEMMA StartupTyped ==
  ASSUME StartupInv, StartupTypeOK, [StartupNext]_startupVars
  PROVE  StartupTypeOK'
  <1> USE StartupAssumption DEF StartupAssumption, StartupTypeOK, diskVars
  <1>1. CASE StartupBegins
    <2>1. inode' \in [Inode -> [size : Nat, version : 0..MaxWrites]]
      <3>1. \A z \in FileSizes : [size |-> z, version |-> 0] \in [size : Nat, version : 0..MaxWrites]
        OBVIOUS
      <3> QED
        BY <1>1, <3>1 DEF StartupBegins
    <2> QED
      BY <1>1, <2>1 DEF StartupBegins
  <1>2. CASE StatFile
    <2>1. Stat(at) \in [ino : Inode \cup {"none"}, size : Nat, version : 0..MaxWrites]
      BY <1>2 DEF StatFile, Stat
    <2>2. total' \in 0..MaxBytes
      BY <1>2, <2>1 DEF StatFile
    <2>3. at' \in Paths /\ reader' \in {"open", "stat"}
      <3>1. at \in 1..Files /\ Files \in Nat \ {0}
        BY DEF Paths
      <3>2. CASE at = Files
        BY <1>2, <3>1, <3>2 DEF StatFile, Paths
      <3>3. CASE at # Files
        BY <1>2, <3>1, <3>3 DEF StatFile, Paths
      <3> QED
        BY <3>2, <3>3
    <2> QED
      BY <1>2, <2>1, <2>2, <2>3 DEF StatFile
  <1>3. CASE OpenFile
    BY <1>3 DEF OpenFile
  <1>4. CASE FstatBefore
    BY <1>4 DEF FstatBefore
  <1>5. CASE ReadFirst
    <2>1. inode[fd].version \in 0..MaxWrites
      BY <1>5 DEF ReadFirst, StartupInv, AtRead
    <2>2. [raw[at] EXCEPT !.first = inode[fd].version] \in [first : 0..MaxWrites, second : 0..MaxWrites]
      BY <2>1
    <2> QED
      BY <1>5, <2>1, <2>2 DEF ReadFirst
  <1>6. CASE ReadSecond
    <2>1. inode[fd].version \in 0..MaxWrites /\ inode[fd].size \in Nat
      BY <1>6 DEF ReadSecond, StartupInv, AtRead
    <2>2. [raw[at] EXCEPT !.second = inode[fd].version] \in [first : 0..MaxWrites, second : 0..MaxWrites]
      BY <2>1
    <2> QED
      BY <1>6, <2>1, <2>2 DEF ReadSecond
  <1>7. CASE FstatAfter
    <2>1. at \in 1..Files /\ Files \in Nat \ {0}
      BY DEF Paths
    <2>2. at' \in Paths /\ reader' \in {"done", "open"}
      <3>1. CASE at = Files
        BY <1>7, <2>1, <3>1 DEF FstatAfter, Paths
      <3>2. CASE at # Files
        BY <1>7, <2>1, <3>2 DEF FstatAfter, Paths
      <3> QED
        BY <3>1, <3>2
    <2> QED
      BY <1>7, <2>2 DEF FstatAfter
  <1>8. CASE StartupFails
    BY <1>8 DEF StartupFails
  <1>9. ASSUME NEW n \in Inode, NEW z \in FileSizes, Editing, writes' = writes + 1,
               inode' = [inode EXCEPT ![n] = [size |-> z, version |-> writes + 1]]
        PROVE  inode' \in [Inode -> [size : Nat, version : 0..MaxWrites]] /\ writes' \in 0..MaxWrites
    <2>1. [size |-> z, version |-> writes + 1] \in [size : Nat, version : 0..MaxWrites]
      BY <1>9 DEF Editing
    <2> QED
      BY <1>9, <2>1
  <1>10. ASSUME NEW n \in Inode, Rewrite(n)
         PROVE  StartupTypeOK'
    BY <1>9, <1>10 DEF Rewrite
  <1>11. ASSUME NEW i \in Paths, NEW n \in Inode, Replace(i, n)
         PROVE  StartupTypeOK'
    BY <1>9, <1>11 DEF Replace
  <1>12. ASSUME NEW i \in Paths, Unlink(i)
         PROVE  StartupTypeOK'
    BY <1>12 DEF Unlink, Editing
  <1>13. CASE UNCHANGED startupVars
    BY <1>13 DEF startupVars
  <1> QED
    BY <1>1, <1>2, <1>3, <1>4, <1>5, <1>6, <1>7, <1>8, <1>10, <1>11, <1>12, <1>13 DEF StartupNext

LEMMA StartupTypesHold == StartupSpec => []StartupTypeOK
  <1>1. StartupInit => StartupTypeOK
    BY StartupAssumption DEF StartupAssumption, StartupInit, StartupTypeOK, NoStat, NotAFile, Paths
  <1> QED
    BY <1>1, StartupStart, StartupStep, StartupTyped, PTL DEF StartupSpec

\* Whatever is written, replaced or removed between the calls of the reader, it
\* returns of each file one content with its own digest and time, or nothing.
THEOREM StartupStaysFaithful == StartupSpec => []StartupFaithful
  <1>1. StartupInv => StartupFaithful
    BY DEF StartupInv, StartupTypes, FilesRead, StartupFaithful
  <1> QED
    BY <1>1, StartupStart, StartupStep, PTL DEF StartupSpec

-----------------------------------------------------------------------------
(* The truncation of JSON. *)

\* The bisection keeps the longest preview that fits between low and high.
OutputInv ==
    /\ OutputTypeOK
    /\ output \in {"searching", "cut"} =>
          /\ envelope \in EnvelopeLengths
          /\ low <= high
          /\ envelope[low] <= OutputLimit
          /\ \A k \in 0..rendered : k > high => envelope[k] > OutputLimit
    /\ output = "cut" => low = high

LEMMA OutputStart == OutputInit => OutputInv
  BY OutputAssumption DEF OutputAssumption, OutputInit, OutputInv, OutputTypeOK

LEMMA OutputStep == OutputInv /\ [OutputNext]_outputVars => OutputInv'
  <1> SUFFICES ASSUME OutputInv, [OutputNext]_outputVars PROVE OutputInv'
    OBVIOUS
  <1> USE OutputAssumption DEF OutputAssumption, OutputInv, OutputTypeOK
  <1>1. CASE Rendered
    BY <1>1 DEF Rendered, Shorter, Growing
  <1>2. CASE Bisect
    <2>1. Middle \in Nat /\ low < Middle /\ Middle <= high
      BY <1>2 DEF Bisect, Middle
    <2>2. CASE Fits(Middle)
      BY <1>2, <2>1, <2>2 DEF Bisect, Fits
    <2>3. CASE ~Fits(Middle)
      <3>1. /\ envelope' = envelope /\ rendered' = rendered /\ output' = output /\ low' = low
            /\ high' = Middle - 1 /\ output = "searching"
        BY <1>2, <2>3 DEF Bisect
      <3>2. \A k \in 0..rendered : k > Middle - 1 => envelope[k] > OutputLimit
        BY <2>1, <2>3, <3>1 DEF Fits, Growing
      <3> QED
        BY <2>1, <3>1, <3>2
    <2> QED
      BY <2>2, <2>3
  <1>3. CASE Found
    BY <1>3 DEF Found
  <1>4. CASE UNCHANGED outputVars
    BY <1>4 DEF outputVars
  <1> QED
    BY <1>1, <1>2, <1>3, <1>4 DEF OutputNext

\* For every payload and every way its characters are escaped, the bisection of
\* json_result returns the longest preview whose envelope fits.
THEOREM TruncationIsMaximal == OutputSpec => []TruncationMaximal
  <1>1. OutputInv => TruncationMaximal
    BY OutputAssumption DEF OutputAssumption, OutputInv, TruncationMaximal
  <1> QED
    BY <1>1, OutputStart, OutputStep, PTL DEF OutputSpec

-----------------------------------------------------------------------------
(* The durable memory. *)

\* What is applied had a worker which is over, and whoever still works is alone
\* and has nothing before it.
MemoryInv ==
    /\ MemoryTypeOK
    /\ \A a \in Attempt :
          /\ worker[a] = "running" => answer[a] \in {"waiting", "unknown", "lost"} /\ applied = {}
          /\ worker[a] = "saved" => a \in applied
          /\ answer[a] \in {"none", "refused"} => worker[a] = "none"
          /\ answer[a] = "failed" => worker[a] = "failed"
          /\ answer[a] = "saved" => worker[a] = "saved"
          /\ answer[a] = "waiting" => worker[a] # "none"
          /\ a \in applied => worker[a] \in {"saved", "late"}
    /\ \A a, b \in Attempt :
          /\ worker[a] = "running" /\ worker[b] = "running" => a = b
          /\ a \in applied /\ b \in applied => a = b

LEMMA MemoryStart == MemoryInit => MemoryInv
  BY DEF MemoryInit, MemoryInv, MemoryTypeOK

LEMMA MemoryStep == MemoryInv /\ [MemoryNext]_memVars => MemoryInv'
  <1> SUFFICES ASSUME MemoryInv, [MemoryNext]_memVars PROVE MemoryInv'
    OBVIOUS
  <1> USE DEF MemoryInv, MemoryTypeOK, Answers
  <1>1. ASSUME NEW a \in Attempt, MayAsk(a)
        PROVE  /\ answer[a] = "none" /\ worker[a] = "none"
               /\ \A b \in Attempt : worker[b] # "running"
               /\ applied = {}
    BY <1>1 DEF MayAsk, Settled
  <1>2. ASSUME NEW a \in Attempt, MemoryStarts(a)
        PROVE  MemoryInv'
    BY <1>1, <1>2 DEF MemoryStarts
  <1>3. ASSUME NEW a \in Attempt, MemoryRefused(a)
        PROVE  MemoryInv'
    BY <1>1, <1>3 DEF MemoryRefused
  <1>4. ASSUME NEW a \in Attempt, MemoryEnds(a)
        PROVE  MemoryInv'
    BY <1>4 DEF MemoryEnds
  <1>5. ASSUME NEW a \in Attempt, MemoryAnswers(a)
        PROVE  MemoryInv'
    BY <1>5 DEF MemoryAnswers, Waiting
  <1>6. ASSUME NEW a \in Attempt, MemoryTimesOut(a) \/ MemoryDisconnects(a)
        PROVE  MemoryInv'
    BY <1>6 DEF MemoryTimesOut, MemoryDisconnects, Waiting, GivenUp
  <1>7. CASE UNCHANGED memVars
    BY <1>7 DEF memVars
  <1> QED
    BY <1>2, <1>3, <1>4, <1>5, <1>6, <1>7 DEF MemoryNext

\* A client that repeats a mutation only as the README allows never writes a
\* conclusion twice, although no worker can be stopped and any answer be lost.
THEOREM MutationAppliedOnce == MemorySpec => []MutationOnce
  <1>1. ASSUME MemoryInv PROVE MutationOnce
    <2>1. CASE applied = {}
      BY <1>1, <2>1, FS_EmptySet DEF MemoryInv, MutationOnce
    <2>2. CASE applied # {}
      <3>1. PICK x \in applied : applied = {x}
        BY <1>1, <2>2 DEF MemoryInv, MemoryTypeOK
      <3>2. Cardinality(applied) = 1
        BY <3>1, FS_Singleton
      <3> QED
        BY <1>1, <3>2 DEF MemoryInv, MutationOnce
    <2> QED
      BY <2>1, <2>2
  <1> QED
    BY <1>1, MemoryStart, MemoryStep, PTL DEF MemorySpec

-----------------------------------------------------------------------------
(* The browser calls. *)

\* A thread that runs, or was told that its tab is gone, has had no effect yet.
BrowserInv ==
    /\ tab \in {"none", "live", "stale"}
    /\ does \in [Visit -> {"navigate", "act"}]
    /\ handler \in [Visit -> {"idle", "waiting", "good", "bad", "stale", "left"}]
    /\ thread \in [Visit -> {"idle", "running", "good", "bad", "stale"}]
    /\ sends \in [Visit -> Nat] /\ effects \in [Visit -> Nat]
    /\ \A v \in Visit :
          /\ effects[v] <= 1
          /\ thread[v] \in {"idle", "running", "stale"} => effects[v] = 0
          /\ thread[v] = "good" => effects[v] = 1
          /\ handler[v] = "idle" => sends[v] = 0 /\ thread[v] = "idle"
          /\ handler[v] \in {"good", "bad", "stale"} => thread[v] = handler[v]
          /\ sends[v] <= IF does[v] = "navigate" THEN 2 ELSE 1

LEMMA BrowserStart == BrowserInit => BrowserInv
  BY DEF BrowserInit, BrowserInv

LEMMA BrowserStep == BrowserInv /\ [BrowserNext]_tabVars => BrowserInv'
  <1> SUFFICES ASSUME BrowserInv, [BrowserNext]_tabVars PROVE BrowserInv'
    OBVIOUS
  <1> USE DEF BrowserInv, Starts
  <1>1. ASSUME NEW v \in Visit, VisitBegins(v)
        PROVE  BrowserInv'
    BY <1>1 DEF VisitBegins
  <1>2. ASSUME NEW v \in Visit, ThreadWorks(v)
        PROVE  BrowserInv'
    BY <1>2 DEF ThreadWorks, TakesEffect, HasNoEffect
  <1>3. ASSUME NEW v \in Visit, VisitRepeated(v)
        PROVE  BrowserInv'
    BY <1>3 DEF VisitRepeated, Back, IsStale, Repeats
  <1>4. ASSUME NEW v \in Visit, VisitAnswered(v)
        PROVE  BrowserInv'
    BY <1>4 DEF VisitAnswered, Back, IsStale
  <1>5. ASSUME NEW v \in Visit, VisitLeft(v)
        PROVE  BrowserInv'
    BY <1>5 DEF VisitLeft
  <1>6. CASE TabDies \/ UNCHANGED tabVars
    BY <1>6 DEF TabDies, tabVars
  <1> QED
    BY <1>1, <1>2, <1>3, <1>4, <1>5, <1>6 DEF BrowserNext

\* However many calls of an owner share its tab, and whenever that is destroyed,
\* the repetition of a navigation never makes it happen twice.
THEOREM NavigatedOnce == BrowserSpec => []NavigateOnce
  <1>1. BrowserInv => NavigateOnce
    BY DEF BrowserInv, NavigateOnce
  <1> QED
    BY <1>1, BrowserStart, BrowserStep, PTL DEF BrowserSpec

-----------------------------------------------------------------------------
(* The language servers. *)

\* A call in flight has seen what the file contains, and once it has sent or
\* found a version, every version from there on was the file's during the call.
DiagnosticsInv ==
    /\ disk \in Texts /\ opened \in Seq(Texts)
    /\ analysed \in Nat /\ analysed <= Newest
    /\ pushed \in Nat /\ pushed <= analysed
    /\ asker \in [Asker -> {"idle", "sync", "synced", "seed", "wait", "request", "told", "none"}]
    /\ awaited \in [Asker -> Nat] /\ said \in [Asker -> Nat]
    /\ held \in [Asker -> SUBSET Texts]
    /\ \A a \in Asker :
          /\ InFlight(a) => disk \in held[a]
          /\ asker[a] \in {"synced", "seed", "wait", "request"} =>
                /\ awaited[a] > 0 /\ awaited[a] <= Newest
                /\ \A k \in 1..Newest : k >= awaited[a] => opened[k] \in held[a]
          /\ asker[a] = "told" => said[a] \in 1..Newest /\ opened[said[a]] \in held[a]

LEMMA DiagnosticsStart == DiagnosticsInit => DiagnosticsInv
  BY DiagnosticsAssumption
     DEF DiagnosticsAssumption, DiagnosticsInit, DiagnosticsInv, Newest, InFlight

\* A new version is of the text that the file has now.
LEMMA Sent ==
  ASSUME DiagnosticsInv, NEW a \in Asker, Opens(a)
  PROVE  /\ opened' \in Seq(Texts) /\ Newest' = Newest + 1 /\ Newest \in Nat
         /\ opened'[Newest'] = disk
         /\ \A k \in 1..Newest : opened'[k] = opened[k]
         /\ awaited' \in [Asker -> Nat] /\ awaited'[a] = Newest'
         /\ \A b \in Asker \ {a} : awaited'[b] = awaited[b]
  BY DEF DiagnosticsInv, Opens, Newest

LEMMA DiagnosticsStep == DiagnosticsInv /\ [DiagnosticsNext]_lspVars => DiagnosticsInv'
  <1> SUFFICES ASSUME DiagnosticsInv, [DiagnosticsNext]_lspVars PROVE DiagnosticsInv'
    OBVIOUS
  <1> USE DEF DiagnosticsInv, InFlight, AsksOn
  <1>0. Newest \in Nat
    BY DEF Newest
  <1>1. ASSUME NEW a \in Asker, Asked(a)
        PROVE  DiagnosticsInv'
    <2>1. /\ UNCHANGED <<disk, opened, analysed, pushed, awaited>> /\ Newest' = Newest
          /\ asker[a] = "idle" /\ held' = [held EXCEPT ![a] = {disk}]
      BY <1>1 DEF Asked, Called, Newest
    <2>2. CASE DocUnchanged /\ Current /\ Says(a, Newest)
      BY <1>0, <2>1, <2>2 DEF DocUnchanged, Current, Says
    <2>3. CASE AsksOn(a, "sync") /\ UNCHANGED said
      BY <1>0, <2>1, <2>3
    <2> QED
      BY <1>1, <2>2, <2>3 DEF Asked
  <1>2. ASSUME NEW a \in Asker, Requested(a)
        PROVE  DiagnosticsInv'
    <2>1. /\ UNCHANGED <<disk, opened, analysed, pushed, awaited, said>> /\ Newest' = Newest
          /\ asker[a] = "idle" /\ held' = [held EXCEPT ![a] = {disk}]
          /\ AsksOn(a, "sync")
      BY <1>2 DEF Requested, Called, Newest
    <2> QED
      BY <1>0, <2>1
  <1>3. ASSUME NEW a \in Asker, Opens(a), asker[a] \in {"sync", "seed"},
               NEW where \in {"synced", "request", "wait"}, AsksOn(a, where),
               UNCHANGED <<disk, analysed, pushed, said, held>>
        PROVE  DiagnosticsInv'
    <2>1. ASSUME NEW b \in Asker, b # a
          PROVE  asker'[b] = asker[b] /\ held'[b] = held[b] /\ said'[b] = said[b] /\ awaited'[b] = awaited[b]
      BY <1>3, <2>1, Sent
    <2>2. asker'[a] = where /\ disk \in held[a] /\ held'[a] = held[a] /\ awaited'[a] = Newest'
      BY <1>3, Sent
    <2>3. ASSUME NEW b \in Asker, b # a
          PROVE  /\ InFlight(b)' => disk \in held[b]
                 /\ asker[b] \in {"synced", "seed", "wait", "request"} =>
                       /\ awaited[b] > 0 /\ awaited[b] <= Newest'
                       /\ \A k \in 1..Newest' : k >= awaited[b] => opened'[k] \in held[b]
                 /\ asker[b] = "told" => said[b] \in 1..Newest' /\ opened'[said[b]] \in held[b]
      <3>1. asker'[b] = asker[b] /\ disk' = disk
        BY <1>3, <2>1, <2>3
      <3>2. \A k \in 1..Newest' : k \in 1..Newest \/ (k = Newest' /\ opened'[k] = disk)
        BY <1>0, <1>3, Sent
      <3>3. \A k \in 1..Newest : opened'[k] = opened[k] /\ k \in 1..Newest'
        BY <1>0, <1>3, Sent
      <3>4. Newest' = Newest + 1
        BY <1>3, Sent
      <3>5. InFlight(b)' => disk \in held[b]
        BY <3>1
      <3>6. ASSUME asker[b] \in {"synced", "seed", "wait", "request"}
            PROVE  /\ awaited[b] > 0 /\ awaited[b] <= Newest'
                   /\ \A k \in 1..Newest' : k >= awaited[b] => opened'[k] \in held[b]
        <4>1. disk \in held[b] /\ awaited[b] > 0 /\ awaited[b] <= Newest /\ awaited[b] \in Nat
          BY <3>6
        <4> QED
          BY <1>0, <3>2, <3>3, <3>4, <3>6, <4>1
      <3>7. asker[b] = "told" => said[b] \in 1..Newest' /\ opened'[said[b]] \in held[b]
        BY <3>3
      <3> QED
        BY <3>5, <3>6, <3>7
    <2>4. /\ awaited'[a] > 0
          /\ \A k \in 1..Newest' : k >= awaited'[a] => opened'[k] \in held'[a]
      BY <1>0, <1>3, <2>2, Sent
    <2>5. asker' \in [Asker -> {"idle", "sync", "synced", "seed", "wait", "request", "told", "none"}]
      BY <1>3
    <2>6. awaited' \in [Asker -> Nat] /\ Newest' \in Nat /\ opened' \in Seq(Texts)
      BY <1>0, <1>3, Sent
    <2> QED
      BY <1>0, <1>3, <2>1, <2>2, <2>3, <2>4, <2>5, <2>6, Sent
  <1>4. ASSUME NEW a \in Asker, Syncs(a)
        PROVE  DiagnosticsInv'
    <2> DEFINE where == IF looked[a] = "request" THEN "request" ELSE "synced"
    <2>1. /\ asker[a] = "sync" /\ AsksOn(a, where)
          /\ UNCHANGED <<disk, analysed, pushed, said, held>>
      BY <1>4 DEF Syncs
    <2>2. CASE Opens(a)
      BY <1>3, <2>1, <2>2
    <2>3. CASE DocUnchanged /\ awaited' = [awaited EXCEPT ![a] = Newest] /\ UNCHANGED opened
      <3>1. Newest' = Newest /\ Newest > 0 /\ opened[Newest] = disk
        BY <1>0, <2>3 DEF DocUnchanged, Newest
      <3> QED
        BY <1>0, <2>1, <2>3, <3>1
    <2> QED
      BY <1>4, <2>2, <2>3 DEF Syncs
  <1>5. ASSUME NEW a \in Asker, SeedSeen(a)
        PROVE  DiagnosticsInv'
    BY <1>3, <1>5 DEF SeedSeen
  <1>6. ASSUME NEW a \in Asker, Synced(a) \/ NoVerdict(a)
        PROVE  DiagnosticsInv'
    BY <1>0, <1>6 DEF Synced, NoVerdict, docVars, Newest
  <1>7. ASSUME NEW a \in Asker, VerdictCame(a) \/ RequestAnswered(a)
        PROVE  DiagnosticsInv'
    <2> DEFINE v == IF asker[a] = "wait" THEN pushed ELSE Newest
    <2>1. /\ Says(a, v) /\ asker[a] \in {"wait", "request"} /\ v >= awaited[a]
          /\ UNCHANGED <<disk, docVars, awaited, held>>
      BY <1>0, <1>7 DEF VerdictCame, RequestAnswered
    <2>2. v \in 1..Newest /\ opened[v] \in held[a]
      BY <1>0, <2>1
    <2> HIDE DEF v
    <2>3. UNCHANGED <<opened, analysed, pushed>> /\ Newest' = Newest
      BY <2>1 DEF docVars, Newest
    <2> QED
      BY <1>0, <2>1, <2>2, <2>3 DEF Says
  <1>8. ASSUME NEW v \in 1..Newest, Push(v)
        PROVE  DiagnosticsInv'
    BY <1>0, <1>8 DEF Push, Newest
  <1>9. CASE FileEdited
    BY <1>0, <1>9 DEF FileEdited, docVars, Newest
  <1>10. CASE UNCHANGED lspVars
    BY <1>0, <1>10 DEF lspVars, docVars, Newest
  <1> QED
    BY <1>1, <1>2, <1>4, <1>5, <1>6, <1>7, <1>8, <1>9, <1>10 DEF DiagnosticsNext

\* The bounded types: nothing is awaited, said or pushed that was not opened.
LEMMA DiagnosticsTyped ==
  ASSUME DiagnosticsInv, DiagnosticsTypeOK, [DiagnosticsNext]_lspVars
  PROVE  DiagnosticsTypeOK'
  <1> USE DEF DiagnosticsTypeOK, AsksOn
  <1>0. Newest \in Nat
    BY DEF Newest
  <1>1. ASSUME NEW a \in Asker, Asked(a)
        PROVE  DiagnosticsTypeOK'
    <2>1. /\ UNCHANGED <<disk, edits, opened, analysed, pushed, seeded, awaited>> /\ Newest' = Newest
          /\ server' \in {"unknown", "plain", "seeding"} /\ held' \in [Asker -> SUBSET Texts]
      BY <1>1 DEF Asked, Called, Newest
    <2>2. /\ looked' \in [Asker -> {"new", "changed", "unchanged", "request"}]
          /\ asker' \in [Asker -> {"idle", "sync", "synced", "seed", "wait", "request", "told", "none"}]
          /\ said' \in [Asker -> 0..Newest]
      <3>1. CASE Says(a, Newest) /\ UNCHANGED looked
        <4>1. Newest \in 0..Newest
          BY <1>0
        <4> QED
          BY <3>1, <4>1 DEF Says
      <3>2. CASE /\ AsksOn(a, "sync") /\ UNCHANGED said
                 /\ looked' = [looked EXCEPT ![a] = IF opened = <<>> THEN "new"
                                 ELSE IF DocUnchanged THEN "unchanged" ELSE "changed"]
        BY <3>2
      <3> QED
        BY <1>1, <3>1, <3>2 DEF Asked
    <2> QED
      BY <2>1, <2>2
  <1>2. ASSUME NEW a \in Asker, Requested(a)
        PROVE  DiagnosticsTypeOK'
    BY <1>0, <1>2 DEF Requested, Called, Newest
  <1>3. ASSUME NEW a \in Asker, Opens(a)
        PROVE  /\ opened' \in Seq(Texts) /\ analysed \in 0..Newest'
               /\ awaited' \in [Asker -> 0..Newest'] /\ said \in [Asker -> 0..Newest']
    <2>1. opened' \in Seq(Texts) /\ Newest' = Newest + 1
      BY <1>3, Sent
    <2>2. 0..Newest \subseteq 0..Newest' /\ Newest + 1 \in 0..Newest'
      BY <1>0, <2>1
    <2>3. awaited' = [awaited EXCEPT ![a] = Newest + 1]
      BY <1>3 DEF Opens
    <2> QED
      BY <2>1, <2>2, <2>3
  <1>4. ASSUME NEW a \in Asker, Syncs(a)
        PROVE  DiagnosticsTypeOK'
    <2>1. /\ UNCHANGED <<disk, edits, server, analysed, pushed, seeded, looked, said, held>>
          /\ asker' \in [Asker -> {"idle", "sync", "synced", "seed", "wait", "request", "told", "none"}]
      BY <1>4 DEF Syncs
    <2>2. CASE awaited' = [awaited EXCEPT ![a] = Newest] /\ UNCHANGED opened
      BY <1>0, <2>1, <2>2 DEF Newest
    <2>3. CASE Opens(a)
      BY <1>3, <2>1, <2>3
    <2> QED
      BY <1>4, <2>2, <2>3 DEF Syncs
  <1>5. ASSUME NEW a \in Asker, SeedSeen(a)
        PROVE  DiagnosticsTypeOK'
    BY <1>3, <1>5 DEF SeedSeen
  <1>6. ASSUME NEW a \in Asker, Synced(a) \/ NoVerdict(a)
        PROVE  DiagnosticsTypeOK'
    BY <1>0, <1>6 DEF Synced, NoVerdict, docVars, Newest
  <1>7. ASSUME NEW a \in Asker, VerdictCame(a) \/ RequestAnswered(a)
        PROVE  DiagnosticsTypeOK'
    <2>1. pushed \in 0..Newest /\ Newest \in 0..Newest
      BY <1>0
    <2>2. said' \in [Asker -> 0..Newest]
      BY <1>7, <2>1 DEF VerdictCame, RequestAnswered, Says
    <2>3. /\ UNCHANGED <<disk, edits, server, opened, analysed, pushed, seeded, looked, awaited, held>>
          /\ asker' \in [Asker -> {"idle", "sync", "synced", "seed", "wait", "request", "told", "none"}]
          /\ Newest' = Newest
      BY <1>7 DEF VerdictCame, RequestAnswered, Says, docVars, Newest
    <2> QED
      BY <2>2, <2>3
  <1>8. ASSUME NEW v \in 1..Newest, Push(v)
        PROVE  DiagnosticsTypeOK'
    <2>1. /\ analysed' = v /\ v \in 0..Newest /\ Newest' = Newest /\ v > analysed
          /\ UNCHANGED <<disk, edits, server, opened, asker, looked, awaited, said, held>>
      BY <1>0, <1>8 DEF Push, Newest
    <2>2. pushed' \in 0..analysed' /\ seeded' \in BOOLEAN
      <3>1. CASE seeded' = TRUE /\ UNCHANGED pushed
        BY <1>0, <2>1, <3>1
      <3>2. CASE pushed' = v /\ UNCHANGED seeded
        BY <1>0, <2>1, <3>2
      <3> QED
        BY <1>8, <3>1, <3>2 DEF Push
    <2> QED
      BY <2>1, <2>2
  <1>9. CASE FileEdited
    BY <1>0, <1>9, DiagnosticsAssumption DEF DiagnosticsAssumption, FileEdited, docVars, Newest
  <1>10. CASE UNCHANGED lspVars
    BY <1>0, <1>10 DEF lspVars, docVars, Newest
  <1> QED
    BY <1>1, <1>2, <1>4, <1>5, <1>6, <1>7, <1>8, <1>9, <1>10 DEF DiagnosticsNext

LEMMA DiagnosticsTypesHold == DiagnosticsSpec => []DiagnosticsTypeOK
  <1>1. DiagnosticsInit => DiagnosticsTypeOK
    <2> SUFFICES ASSUME DiagnosticsInit PROVE DiagnosticsTypeOK
      OBVIOUS
    <2>1. opened \in Seq(Texts) /\ Newest = 0 /\ disk \in Texts
      BY DiagnosticsAssumption DEF DiagnosticsAssumption, DiagnosticsInit, Newest
    <2>2. edits \in 0..MaxEdits /\ analysed \in 0..0 /\ pushed \in 0..analysed
      BY DiagnosticsAssumption DEF DiagnosticsAssumption, DiagnosticsInit
    <2> QED
      BY <2>1, <2>2 DEF DiagnosticsInit, DiagnosticsTypeOK
  <1> QED
    BY <1>1, DiagnosticsStart, DiagnosticsStep, DiagnosticsTyped, PTL DEF DiagnosticsSpec

\* However many calls share the open document and whenever the file is edited,
\* an answer is about a text the file had during its call.
THEOREM DiagnosticsStayFresh == DiagnosticsSpec => []DiagnosticsFresh
  <1>1. DiagnosticsInv => DiagnosticsFresh
    BY DEF DiagnosticsInv, DiagnosticsFresh
  <1> QED
    BY <1>1, DiagnosticsStart, DiagnosticsStep, PTL DEF DiagnosticsSpec

-----------------------------------------------------------------------------
(* The gateway. *)

\* Each part behaves in the gateway as it does alone.
THEOREM GatewayIsItsParts ==
    GatewaySpec => /\ ReadySpec /\ ReadSpec /\ StartupSpec /\ MemorySpec
                   /\ BrowserSpec /\ OutputSpec /\ DiagnosticsSpec
  <1>1. GatewayInit => /\ ReadyInit /\ ReadInit /\ StartupInit /\ MemoryInit
                       /\ BrowserInit /\ OutputInit /\ DiagnosticsInit
    BY DEF GatewayInit
  <1>2. [GatewayNext]_gatewayVars =>
            /\ [ReadyNext]_readyVars /\ [ReadNext]_readVars /\ [StartupNext]_startupVars
            /\ [MemoryNext]_memVars /\ [BrowserNext]_tabVars /\ [OutputNext]_outputVars
            /\ [DiagnosticsNext]_lspVars
    BY DEF GatewayNext, Readies, Reads, StartsUp, Remembers, Browses, Truncates, Diagnoses, gatewayVars
  <1> QED
    BY <1>1, <1>2, PTL
       DEF GatewaySpec, ReadySpec, ReadSpec, StartupSpec, MemorySpec, BrowserSpec, OutputSpec,
           DiagnosticsSpec

\* The variables of every part stay in their types: no counter passes its bound, no
\* version is newer than what was written or sent, no cut is outside its text.
THEOREM GatewayTypes == GatewaySpec => []TypeOK
  <1>1. GatewaySpec => [](part \in Parts)
    <2>1. GatewayInit => part \in Parts
      BY DEF GatewayInit
    <2>2. part \in Parts /\ [GatewayNext]_gatewayVars => (part \in Parts)'
      BY DEF GatewayNext, Readies, Reads, StartsUp, Remembers, Browses, Truncates, Diagnoses, gatewayVars
    <2> QED
      BY <2>1, <2>2, PTL DEF GatewaySpec
  <1>2. ReadySpec => []ReadyTypeOK
    <2>1. ReadyInv => ReadyTypeOK
      BY DEF ReadyInv
    <2> QED
      BY <2>1, ReadyStart, ReadyStep, PTL DEF ReadySpec
  <1>3. ReadSpec => []ReadTypeOK
    <2>1. ReadInv => ReadTypeOK
      BY DEF ReadInv
    <2> QED
      BY <2>1, ReadStart, ReadStep, PTL DEF ReadSpec
  <1>4. MemorySpec => []MemoryTypeOK
    <2>1. MemoryInv => MemoryTypeOK
      BY DEF MemoryInv
    <2> QED
      BY <2>1, MemoryStart, MemoryStep, PTL DEF MemorySpec
  <1>5. BrowserSpec => []BrowserTypeOK
    <2>1. BrowserInv => BrowserTypeOK
      BY DEF BrowserInv, BrowserTypeOK
    <2> QED
      BY <2>1, BrowserStart, BrowserStep, PTL DEF BrowserSpec
  <1>6. OutputSpec => []OutputTypeOK
    <2>1. OutputInv => OutputTypeOK
      BY DEF OutputInv
    <2> QED
      BY <2>1, OutputStart, OutputStep, PTL DEF OutputSpec
  <1> QED
    BY <1>1, <1>2, <1>3, <1>4, <1>5, <1>6, GatewayIsItsParts, StartupTypesHold,
       DiagnosticsTypesHold, PTL DEF TypeOK

\* A conclusion is never written twice and a navigation never made twice by the
\* gateway, although it can stop no thread and has to give up answers.
THEOREM EffectsHappenOnce == GatewaySpec => []EffectsOnce
  BY GatewayIsItsParts, MutationAppliedOnce, NavigatedOnce, PTL DEF EffectsOnce

\* What the parts guarantee holds of the gateway; of a file whose lines contain a
\* separator its reader may lose fragments (read_pages.cfg).
COROLLARY GatewaySafe ==
    GatewaySpec => [](/\ VerdictKept /\ (~Separators => ReadFaithful)
                      /\ StartupFaithful /\ EffectsOnce /\ TruncationMaximal /\ DiagnosticsFresh)
  BY GatewayIsItsParts, ReadinessHolds, ReadStaysFaithful, StartupStaysFaithful,
     EffectsHappenOnce, TruncationIsMaximal, DiagnosticsStayFresh, PTL
=============================================================================
