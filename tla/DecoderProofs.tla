--------------------------- MODULE DecoderProofs ---------------------------
(***************************************************************************)
(* Proofs about SentenceAssembler for any keys and any sentences, ill-     *)
(* formed numbers and counts included: add() returns a payload exactly     *)
(* when an uninterrupted run of fragments has been heard.                  *)
(*                                                                         *)
(* And about DecoderStage, for any stations that transmit whole messages   *)
(* and any mishaps on the way: what becomes of messages nothing has        *)
(* happened to, and what it takes to mix two of them.                      *)
(***************************************************************************)
EXTENDS AssemblerRuns, DecoderStage, SequenceTheorems, FiniteSetTheorems, TLAPS

------------------------------------------------------------------------------
(* Runs at the end of a history.                                            *)

\* The elements of a history that has grown by one.
LEMMA AppendElements ==
    ASSUME NEW S, NEW h \in Seq(S), NEW s \in S
    PROVE  /\ Len(h) \in Nat
           /\ Append(h, s) \in Seq(S)
           /\ Len(Append(h, s)) = Len(h) + 1
           /\ \A i \in 1 .. Len(h) : Append(h, s)[i] = h[i]
           /\ Append(h, s)[Len(h) + 1] = s
BY AppendProperties, LenProperties

\* A fragment extends the open run before it, or starts one; it closes it when
\* its count says so.
LEMMA RunExtends ==
    ASSUME NEW S, NEW h \in Seq(S), NEW s \in S, NEW n \in Nat
    PROVE  /\ OpenRun(Append(h, s), n + 1)
              <=> /\ n = 0 \/ OpenRun(h, n)
                  /\ s.number = n + 1
                  /\ n = 0 \/ s.count # n + 1
           /\ FullRun(Append(h, s), n + 1)
              <=> OpenRun(h, n) /\ s.number = n + 1 /\ s.count = n + 1
<1> DEFINE g == Append(h, s)
<1>1. /\ Len(h) \in Nat /\ Len(g) = Len(h) + 1
      /\ \A i \in 1 .. Len(h) : g[i] = h[i]
      /\ g[Len(h) + 1] = s
  BY AppendElements
<1> HIDE DEF g
<1>2. ASSUME n <= Len(h), NEW i \in 1 .. n
      PROVE  g[Len(g) - (n + 1) + i] = h[Len(h) - n + i]
  BY <1>1, <1>2
<1>3. n <= Len(h) => g[Len(g) - (n + 1) + (n + 1)] = s
  BY <1>1
<1>4. IsRun(g, n + 1, n) <=> (n = 0 \/ IsRun(h, n, n)) /\ s.number = n + 1
  <2>1. ASSUME IsRun(g, n + 1, n)
        PROVE  (n = 0 \/ IsRun(h, n, n)) /\ s.number = n + 1
    <3>1. n <= Len(h) /\ n + 1 \in 1 .. n + 1
      BY <1>1, <2>1 DEF IsRun
    <3>2. s.number = n + 1
      BY <1>3, <2>1, <3>1 DEF IsRun
    <3>3. \A i \in 1 .. n : h[Len(h) - n + i].number = i
      <4> SUFFICES ASSUME NEW i \in 1 .. n PROVE h[Len(h) - n + i].number = i
        OBVIOUS
      <4>1. i \in 1 .. n + 1 /\ g[Len(g) - (n + 1) + i] = h[Len(h) - n + i]
        BY <1>2, <3>1
      <4>2. g[Len(g) - (n + 1) + i].number = i
        BY <2>1, <4>1 DEF IsRun
      <4> QED BY <4>1, <4>2
    <3>4. \A i \in 2 .. n : h[Len(h) - n + i].count # i
      <4> SUFFICES ASSUME NEW i \in 2 .. n PROVE h[Len(h) - n + i].count # i
        OBVIOUS
      <4>1. i \in 1 .. n /\ g[Len(g) - (n + 1) + i] = h[Len(h) - n + i]
        BY <1>2, <3>1
      <4>2. g[Len(g) - (n + 1) + i].count # i
        BY <2>1 DEF IsRun
      <4> QED BY <4>1, <4>2
    <3> QED BY <3>1, <3>2, <3>3, <3>4 DEF IsRun
  <2>2. ASSUME n = 0 \/ IsRun(h, n, n), s.number = n + 1
        PROVE  IsRun(g, n + 1, n)
    <3>1. n <= Len(h)
      BY <1>1, <2>2 DEF IsRun
    <3>2. \A i \in 1 .. n + 1 : g[Len(g) - (n + 1) + i].number = i
      <4> SUFFICES ASSUME NEW i \in 1 .. n + 1 PROVE g[Len(g) - (n + 1) + i].number = i
        OBVIOUS
      <4>1. CASE i = n + 1
        BY <1>3, <2>2, <3>1, <4>1
      <4>2. CASE i \in 1 .. n
        <5>1. g[Len(g) - (n + 1) + i] = h[Len(h) - n + i]
          BY <1>2, <3>1, <4>2
        <5>2. h[Len(h) - n + i].number = i
          BY <2>2, <4>2 DEF IsRun
        <5> QED BY <5>1, <5>2
      <4> QED BY <4>1, <4>2
    <3>3. \A i \in 2 .. n : g[Len(g) - (n + 1) + i].count # i
      <4> SUFFICES ASSUME NEW i \in 2 .. n PROVE g[Len(g) - (n + 1) + i].count # i
        OBVIOUS
      <4>1. i \in 1 .. n /\ g[Len(g) - (n + 1) + i] = h[Len(h) - n + i]
        BY <1>2, <3>1
      <4>2. h[Len(h) - n + i].count # i
        BY <2>2 DEF IsRun
      <4> QED BY <4>1, <4>2
    <3> QED BY <1>1, <3>1, <3>2, <3>3 DEF IsRun
  <2> QED BY <2>1, <2>2
<1>5. IsRun(g, n + 1, n + 1) <=> IsRun(g, n + 1, n) /\ (n = 0 \/ s.count # n + 1)
  <2>1. CASE n <= Len(h)
    <3>1. g[Len(g) - (n + 1) + (n + 1)] = s
      BY <1>3, <2>1
    <3> QED BY <3>1 DEF IsRun
  <2>2. CASE ~(n <= Len(h))
    BY <1>1, <2>2 DEF IsRun
  <2> QED BY <2>1, <2>2
<1>6. OpenRun(g, n + 1)
      <=> (n = 0 \/ OpenRun(h, n)) /\ s.number = n + 1 /\ (n = 0 \/ s.count # n + 1)
  BY <1>4, <1>5 DEF OpenRun
<1>7. FullRun(g, n + 1) <=> OpenRun(h, n) /\ s.number = n + 1 /\ s.count = n + 1
  BY <1>1, <1>4 DEF FullRun, OpenRun
<1> QED BY <1>6, <1>7 DEF g

\* The length of a run is the number of the last fragment heard.
LEMMA RunLength ==
    ASSUME NEW S, NEW h \in Seq(S), NEW n \in Nat, OpenRun(h, n)
    PROVE  n \in 1 .. Len(h) /\ h[Len(h)].number = n
<1>1. Len(h) \in Nat
  BY LenProperties
<1>2. n \in 1 .. n /\ Len(h) - n + n = Len(h)
  BY <1>1 DEF OpenRun
<1> QED BY <1>1, <1>2 DEF OpenRun, IsRun

LEMMA LatestElements ==
    ASSUME NEW S, NEW h \in Seq(S), NEW n \in 0 .. Len(h)
    PROVE  /\ Latest(h, n) \in Seq(S) /\ Len(Latest(h, n)) = n
           /\ \A i \in 1 .. n : Latest(h, n)[i] = h[Len(h) - n + i]
<1>1. Len(h) \in Nat /\ \A i \in 1 .. Len(h) : h[i] \in S
  BY ElementOfSeq
<1> DEFINE m == Len(h) - n + 1
<1>2. m \in 1 .. Len(h) + 1 /\ Len(h) - m + 1 = n
      /\ (m <= Len(h) => n >= 1) /\ (~(m <= Len(h)) => n = 0)
  BY <1>1
<1>3. /\ SubSeq(h, m, Len(h)) \in Seq(S)
      /\ Len(SubSeq(h, m, Len(h))) = IF m <= Len(h) THEN Len(h) - m + 1 ELSE 0
      /\ \A i \in 1 .. Len(h) - m + 1 : SubSeq(h, m, Len(h))[i] = h[m + i - 1]
  <2>1. \A i \in m .. Len(h) : h[i] \in S
    BY <1>1
  <2> HIDE DEF m
  <2> QED BY <1>1, <1>2, <2>1, SubSeqProperties
<1>4. \A i \in 1 .. n : m + i - 1 = Len(h) - n + i
  BY <1>1
<1> HIDE DEF m
<1>5. /\ SubSeq(h, m, Len(h)) \in Seq(S) /\ Len(SubSeq(h, m, Len(h))) = n
      /\ \A i \in 1 .. n : SubSeq(h, m, Len(h))[i] = h[Len(h) - n + i]
  <2>1. Len(SubSeq(h, m, Len(h))) = n
    BY <1>1, <1>2, <1>3
  <2>2. \A i \in 1 .. n : SubSeq(h, m, Len(h))[i] = h[Len(h) - n + i]
    BY <1>2, <1>3, <1>4
  <2> QED BY <1>3, <2>1, <2>2
<1> QED BY <1>5 DEF Latest, m

LEMMA LatestOfAppend ==
    ASSUME NEW S, NEW h \in Seq(S), NEW s \in S, NEW n \in 0 .. Len(h)
    PROVE  Latest(Append(h, s), n + 1) = Append(Latest(h, n), s) /\ Len(Latest(h, n)) = n
<1> DEFINE g == Append(h, s)
           a == Latest(g, n + 1)
           b == Latest(h, n)
<1>1. /\ Len(h) \in Nat /\ g \in Seq(S) /\ Len(g) = Len(h) + 1
      /\ \A i \in 1 .. Len(h) : g[i] = h[i]
      /\ g[Len(h) + 1] = s
  BY AppendElements
<1> HIDE DEF g
<1>3. /\ a \in Seq(S) /\ Len(a) = n + 1
      /\ \A i \in 1 .. n + 1 : a[i] = g[Len(g) - (n + 1) + i]
  <2>1. n + 1 \in 0 .. Len(g)
    BY <1>1
  <2> QED BY <1>1, <2>1, LatestElements
<1>4. /\ b \in Seq(S) /\ Len(b) = n
      /\ \A i \in 1 .. n : b[i] = h[Len(h) - n + i]
  BY LatestElements
<1> HIDE DEF a, b
<1>5. /\ Append(b, s) \in Seq(S) /\ Len(Append(b, s)) = n + 1
      /\ \A i \in 1 .. n : Append(b, s)[i] = b[i]
      /\ Append(b, s)[n + 1] = s
  BY <1>4, AppendProperties
<1>6. \A i \in 1 .. n + 1 : a[i] = Append(b, s)[i]
  <2> SUFFICES ASSUME NEW i \in 1 .. n + 1 PROVE a[i] = Append(b, s)[i]
    OBVIOUS
  <2>1. CASE i = n + 1
    BY <1>1, <1>3, <1>5, <2>1
  <2>2. CASE i \in 1 .. n
    <3>1. g[Len(g) - (n + 1) + i] = h[Len(h) - n + i]
      BY <1>1, <2>2
    <3>2. a[i] = g[Len(g) - (n + 1) + i]
      BY <1>3
    <3>3. b[i] = h[Len(h) - n + i]
      BY <1>4, <2>2
    <3>4. Append(b, s)[i] = b[i]
      BY <1>5, <2>2
    <3> QED BY <3>1, <3>2, <3>3, <3>4
  <2>3. i = n + 1 \/ i \in 1 .. n
    BY <1>1
  <2> QED BY <2>1, <2>2, <2>3
<1>7. a = Append(b, s)
  BY <1>3, <1>5, <1>6, SeqEqual
<1> QED BY <1>4, <1>7 DEF a, b, g

------------------------------------------------------------------------------
(* The state of the assembler against its history.                          *)

\* Only fragments are recorded in the history.
OnlyFragments == \A k \in Keys : \A i \in 1 .. Len(heard[k]) : IsFragment(heard[k][i])

AssemblerInv == HistoryTypeOK /\ OnlyFragments /\ PendingIsTheOpenRun

LEMMA InitAssembler == HistoryInit => AssemblerInv /\ ReturnsExactlyTheRuns
<1> SUFFICES ASSUME HistoryInit PROVE AssemblerInv /\ ReturnsExactlyTheRuns
  OBVIOUS
<1>1. \A k \in Keys : pending[k] = <<>> /\ heard[k] = <<>> /\ Len(heard[k]) = 0
  BY EmptySeq DEF HistoryInit, Init
<1>2. HistoryTypeOK
  BY EmptySeq, RunsAssumption DEF HistoryInit, Init, HistoryTypeOK, TypeOK
<1>3. OnlyFragments /\ PendingIsTheOpenRun
  BY <1>1 DEF OnlyFragments, PendingIsTheOpenRun
<1>4. ReturnsExactlyTheRuns
  BY DEF HistoryInit, ReturnsExactlyTheRuns
<1> QED BY <1>2, <1>3, <1>4 DEF AssemblerInv

\* A sentence that is not a fragment leaves groups and history alone.
LEMMA HearOther ==
    ASSUME AssemblerInv, NEW s \in Sentences, Hear(s), ~IsFragment(s)
    PROVE  AssemblerInv' /\ ReturnsExactlyTheRuns'
<1>1. /\ pending' = pending /\ heard' = heard /\ last' = <<s>>
      /\ out' = IF IsSingle(s) THEN <<s>> ELSE <<>>
  BY DEF Hear, Add, IsFragment, AddSingle, AddWithoutKey, AddFirst, AddOutOfSequence,
         AddMiddle, AddLast
<1>2. ~IsSingle(s) => s.key = NoKey
  BY DEF IsFragment
<1>3. out' \in Seq(Sentences)
  BY <1>1, EmptySeq
<1>4. adds' \in 0 .. MaxAdds
  BY RunsAssumption DEF Hear, AssemblerInv, HistoryTypeOK
<1>5. HistoryTypeOK'
  BY <1>1, <1>3, <1>4 DEF AssemblerInv, HistoryTypeOK, TypeOK
<1>6. OnlyFragments' /\ PendingIsTheOpenRun'
  BY <1>1 DEF AssemblerInv, OnlyFragments, PendingIsTheOpenRun
<1>7. last'[1] = s
  BY <1>1
<1>8. ReturnsExactlyTheRuns'
  BY <1>1, <1>2, <1>7 DEF ReturnsExactlyTheRuns, Expected
<1> QED BY <1>5, <1>6, <1>8 DEF AssemblerInv

\* What add() does to the group g of a fragment with history h: the next group
\* and the result, case by case.
LEMMA FragmentOutcome ==
    ASSUME NEW h \in Seq(Sentences), NEW g \in Seq(Sentences), NEW s \in Sentences,
           s.number \in Int, s.count \in Int, s.count # 1,
           \/ OpenRun(h, Len(g)) /\ g = Latest(h, Len(g))
           \/ g = <<>> /\ \A n \in 1 .. Len(h) : ~OpenRun(h, n)
    PROVE  LET h2 == Append(h, s) IN
           /\ s.number = 1 => /\ OpenRun(h2, 1) /\ <<s>> = Latest(h2, 1)
                              /\ ~FullRun(h2, s.number)
           /\ (s.number # 1 /\ s.number # Len(g) + 1)
                 => /\ \A n \in 1 .. Len(h2) : ~OpenRun(h2, n)
                    /\ ~FullRun(h2, s.number)
           /\ (s.number # 1 /\ s.number = Len(g) + 1 /\ s.count # s.number)
                 => /\ OpenRun(h2, s.number) /\ Append(g, s) = Latest(h2, s.number)
                    /\ ~FullRun(h2, s.number)
           /\ (s.number # 1 /\ s.number = Len(g) + 1 /\ s.count = s.number)
                 => /\ \A n \in 1 .. Len(h2) : ~OpenRun(h2, n)
                    /\ FullRun(h2, s.number) /\ Append(g, s) = Latest(h2, s.number)
<1> DEFINE h2 == Append(h, s)
<1>1. /\ Len(h) \in Nat /\ Len(g) \in Nat /\ h2 \in Seq(Sentences)
      /\ Len(h2) = Len(h) + 1 /\ h2[Len(h2)] = s
  BY AppendElements, LenProperties
<1>2. \A n \in Nat :
         /\ OpenRun(h2, n + 1)
            <=> (n = 0 \/ OpenRun(h, n)) /\ s.number = n + 1 /\ (n = 0 \/ s.count # n + 1)
         /\ FullRun(h2, n + 1) <=> OpenRun(h, n) /\ s.number = n + 1 /\ s.count = n + 1
  BY RunExtends
<1>3. \A n \in Nat : OpenRun(h, n) => n = Len(g)
  <2> SUFFICES ASSUME NEW n \in Nat, OpenRun(h, n) PROVE n = Len(g)
    OBVIOUS
  <2>1. n \in 1 .. Len(h) /\ h[Len(h)].number = n
    BY RunLength
  <2>2. CASE OpenRun(h, Len(g))
    BY <1>1, <2>1, <2>2, RunLength
  <2> QED BY <2>1, <2>2
<1>4. \A n \in Nat : n = 0 \/ OpenRun(h, n) => Latest(h2, n + 1) = Append(Latest(h, n), s)
  <2> SUFFICES ASSUME NEW n \in Nat, n = 0 \/ OpenRun(h, n)
               PROVE  Latest(h2, n + 1) = Append(Latest(h, n), s)
    OBVIOUS
  <2>1. n \in 0 .. Len(h)
    BY <1>1, RunLength
  <2> QED BY <2>1, LatestOfAppend
<1>5. ASSUME NEW n \in 1 .. Len(h2) PROVE n - 1 \in Nat /\ (n - 1) + 1 = n
  BY <1>1, <1>5
<1>6. \A n \in 1 .. Len(h2) :
         OpenRun(h2, n) => s.number = n /\ (n = 1 \/ (OpenRun(h, n - 1) /\ s.count # n))
  <2> SUFFICES ASSUME NEW n \in 1 .. Len(h2), OpenRun(h2, n)
               PROVE  s.number = n /\ (n = 1 \/ (OpenRun(h, n - 1) /\ s.count # n))
    OBVIOUS
  <2>1. n - 1 \in Nat /\ (n - 1) + 1 = n
    BY <1>5
  <2>2. (n - 1 = 0 \/ OpenRun(h, n - 1)) /\ s.number = n /\ (n - 1 = 0 \/ s.count # n)
    BY <1>2, <2>1
  <2> QED BY <2>1, <2>2
<1>7. FullRun(h2, s.number)
      => s.number # 1 /\ s.number = Len(g) + 1 /\ s.count = s.number /\ OpenRun(h, Len(g))
  <2> SUFFICES ASSUME FullRun(h2, s.number)
               PROVE  s.number # 1 /\ s.number = Len(g) + 1 /\ s.count = s.number
                      /\ OpenRun(h, Len(g))
    OBVIOUS
  <2>1. s.number >= 2
    BY DEF FullRun
  <2>2. s.number - 1 \in Nat /\ (s.number - 1) + 1 = s.number
    BY <2>1
  <2>3. OpenRun(h, s.number - 1) /\ s.count = s.number
    BY <1>2, <2>2
  <2> QED BY <1>1, <1>3, <2>1, <2>2, <2>3
<1> HIDE DEF h2
<1>8. CASE s.number = 1
  <2>1. OpenRun(h2, 1)
    <3>1. \A i \in 1 .. 1 : h2[Len(h2) - 1 + i] = s
      BY <1>1
    <3>2. 1 <= Len(h2)
      BY <1>1
    <3> QED BY <1>8, <3>1, <3>2 DEF OpenRun, IsRun
  <2>2. Latest(h2, 1) = Append(Latest(h, 0), s)
    <3>1. Latest(h2, 0 + 1) = Append(Latest(h, 0), s)
      BY <1>4, Zenon
    <3>2. 0 + 1 = 1
      OBVIOUS
    <3> QED BY <3>1, <3>2, Zenon
  <2>3. Latest(h, 0) = <<>>
    BY <1>1, SubSeqEmpty DEF Latest
  <2>4. Append(<<>>, s) = <<s>>
    OBVIOUS
  <2> QED BY <1>7, <1>8, <2>1, <2>2, <2>3, <2>4 DEF h2
<1>9. CASE s.number # 1 /\ s.number # Len(g) + 1
  <2>1. \A n \in 1 .. Len(h2) : ~OpenRun(h2, n)
    <3> SUFFICES ASSUME NEW n \in 1 .. Len(h2), OpenRun(h2, n) PROVE FALSE
      OBVIOUS
    <3>1. s.number = n /\ OpenRun(h, n - 1)
      BY <1>6, <1>9
    <3>2. n - 1 = Len(g)
      BY <1>3, <1>5, <3>1
    <3> QED BY <1>1, <1>9, <3>1, <3>2
  <2> QED BY <1>7, <1>9, <2>1 DEF h2
<1>10. CASE s.number # 1 /\ s.number = Len(g) + 1
  <2>1. Len(g) # 0 /\ OpenRun(h, Len(g)) /\ g = Latest(h, Len(g))
    BY <1>1, <1>10, EmptySeq
  <2>2. Latest(h2, s.number) = Append(g, s)
    BY <1>1, <1>4, <1>10, <2>1
  <2>3. CASE s.count # s.number
    <3>1. OpenRun(h2, s.number)
      BY <1>1, <1>2, <1>10, <2>1, <2>3
    <3> QED BY <1>7, <1>10, <2>2, <2>3, <3>1 DEF h2
  <2>4. CASE s.count = s.number
    <3>1. FullRun(h2, s.number)
      BY <1>1, <1>2, <1>10, <2>1, <2>4
    <3>2. \A n \in 1 .. Len(h2) : ~OpenRun(h2, n)
      BY <1>6, <1>10, <2>4
    <3> QED BY <1>10, <2>2, <2>4, <3>1, <3>2 DEF h2
  <2> QED BY <2>3, <2>4
<1> QED BY <1>8, <1>9, <1>10 DEF h2

\* A fragment changes one group and one history, and its outcome is the one the
\* history calls for.
LEMMA HearFragment ==
    ASSUME AssemblerInv, NEW s \in Sentences, Hear(s), IsFragment(s)
    PROVE  AssemblerInv' /\ ReturnsExactlyTheRuns'
<1> DEFINE k  == s.key
           g  == pending[k]
           h  == heard[k]
           h2 == Append(h, s)
<1>1. k \in Keys /\ s.number \in Int /\ s.count \in Int /\ s.count # 1 /\ ~IsSingle(s)
  BY AssemblerAssumption DEF IsFragment, IsSingle
<1>2. /\ pending \in [Keys -> Seq(Sentences)] /\ heard \in [Keys -> Seq(Sentences)]
      /\ g \in Seq(Sentences) /\ h \in Seq(Sentences)
  BY <1>1 DEF AssemblerInv, HistoryTypeOK, TypeOK
<1>3. /\ heard' = [heard EXCEPT ![k] = h2] /\ last' = <<s>> /\ adds' \in 0 .. MaxAdds
      /\ h2 \in Seq(Sentences)
  BY <1>1, <1>2, RunsAssumption, AppendProperties
     DEF Hear, AssemblerInv, HistoryTypeOK
<1>4. PICK p \in Seq(Sentences), r \in Seq(Sentences) :
         /\ pending' = [pending EXCEPT ![k] = p] /\ out' = r
         /\ \/ /\ s.number = 1 /\ p = <<s>> /\ r = <<>>
            \/ /\ s.number # 1 /\ s.number # Len(g) + 1 /\ p = <<>> /\ r = <<>>
            \/ /\ s.number # 1 /\ s.number = Len(g) + 1 /\ s.count # s.number
               /\ p = Append(g, s) /\ r = <<>>
            \/ /\ s.number # 1 /\ s.number = Len(g) + 1 /\ s.count = s.number
               /\ p = <<>> /\ r = Append(g, s)
  <2>1. <<>> \in Seq(Sentences) /\ <<s>> \in Seq(Sentences) /\ Append(g, s) \in Seq(Sentences)
    BY <1>2, AppendProperties, EmptySeq
  <2>2. CASE AddFirst(s)
    BY <2>1, <2>2 DEF AddFirst, Settle
  <2>3. CASE AddOutOfSequence(s)
    BY <2>1, <2>3 DEF AddOutOfSequence, Follows, Settle
  <2>4. CASE AddMiddle(s)
    BY <2>1, <2>4 DEF AddMiddle, Follows, Completes, Settle
  <2>5. CASE AddLast(s)
    <3>1. /\ s.number # 1 /\ s.number = Len(g) + 1 /\ s.count = s.number
          /\ pending' = [pending EXCEPT ![k] = <<>>] /\ out' = Append(g, s)
      BY <2>5 DEF AddLast, Follows, Completes, Settle
    <3> HIDE DEF g
    <3> QED BY <2>1, <3>1
  <2>6. ~AddSingle(s) /\ ~AddWithoutKey(s)
    BY DEF IsFragment, AddSingle, AddWithoutKey
  <2> QED BY <2>2, <2>3, <2>4, <2>5, <2>6 DEF Hear, Add
<1>5. \/ OpenRun(h, Len(g)) /\ g = Latest(h, Len(g))
      \/ g = <<>> /\ \A n \in 1 .. Len(h) : ~OpenRun(h, n)
  BY <1>1 DEF AssemblerInv, PendingIsTheOpenRun
<1> HIDE DEF g, h
<1>6. /\ s.number = 1 => /\ OpenRun(h2, 1) /\ <<s>> = Latest(h2, 1)
                         /\ ~FullRun(h2, s.number)
      /\ (s.number # 1 /\ s.number # Len(g) + 1)
            => /\ \A n \in 1 .. Len(h2) : ~OpenRun(h2, n)
               /\ ~FullRun(h2, s.number)
      /\ (s.number # 1 /\ s.number = Len(g) + 1 /\ s.count # s.number)
            => /\ OpenRun(h2, s.number) /\ Append(g, s) = Latest(h2, s.number)
               /\ ~FullRun(h2, s.number)
      /\ (s.number # 1 /\ s.number = Len(g) + 1 /\ s.count = s.number)
            => /\ \A n \in 1 .. Len(h2) : ~OpenRun(h2, n)
               /\ FullRun(h2, s.number) /\ Append(g, s) = Latest(h2, s.number)
  BY <1>1, <1>2, <1>5, FragmentOutcome
<1> HIDE DEF h2
<1>7. HistoryTypeOK'
  BY <1>1, <1>2, <1>3, <1>4 DEF HistoryTypeOK, TypeOK
<1>8. pending'[k] = p /\ heard'[k] = h2
  BY <1>1, <1>2, <1>3, <1>4
<1>9. \A j \in Keys : j # k => pending'[j] = pending[j] /\ heard'[j] = heard[j]
  BY <1>2, <1>3, <1>4
<1>10. \/ OpenRun(h2, Len(p)) /\ p = Latest(h2, Len(p))
       \/ p = <<>> /\ \A n \in 1 .. Len(h2) : ~OpenRun(h2, n)
  <2>1. CASE p = <<s>> /\ s.number = 1
    <3>1. Len(p) = 1
      BY <2>1
    <3> QED BY <1>6, <2>1, <3>1
  <2>2. CASE /\ s.number # 1 /\ s.number = Len(g) + 1 /\ s.count # s.number
             /\ p = Append(g, s)
    <3>1. Len(p) = s.number
      BY <1>2, <2>2, AppendProperties
    <3> QED BY <1>6, <2>2, <3>1
  <2> QED BY <1>4, <1>6, <2>1, <2>2
<1>11. PendingIsTheOpenRun'
  <2> SUFFICES ASSUME NEW j \in Keys
               PROVE  \/ /\ OpenRun(heard'[j], Len(pending'[j]))
                         /\ pending'[j] = Latest(heard'[j], Len(pending'[j]))
                      \/ /\ pending'[j] = <<>>
                         /\ \A n \in 1 .. Len(heard'[j]) : ~OpenRun(heard'[j], n)
    BY DEF PendingIsTheOpenRun
  <2>1. CASE j = k
    BY <1>8, <1>10, <2>1
  <2>2. CASE j # k
    BY <1>9, <2>2 DEF AssemblerInv, PendingIsTheOpenRun
  <2> QED BY <2>1, <2>2
<1>12. OnlyFragments'
  <2> SUFFICES ASSUME NEW j \in Keys, NEW i \in 1 .. Len(heard'[j])
               PROVE  IsFragment(heard'[j][i])
    BY DEF OnlyFragments
  <2>1. CASE j = k
    <3>1. /\ Len(h) \in Nat /\ Len(h2) = Len(h) + 1 /\ h2[Len(h) + 1] = s
          /\ \A l \in 1 .. Len(h) : h2[l] = h[l]
      BY <1>2, AppendElements DEF h2
    <3>2. \A l \in 1 .. Len(h) : IsFragment(h[l])
      BY <1>1 DEF AssemblerInv, OnlyFragments, h
    <3> QED BY <1>8, <2>1, <3>1, <3>2
  <2>2. CASE j # k
    BY <1>9, <2>2 DEF AssemblerInv, OnlyFragments
  <2> QED BY <2>1, <2>2
<1>13. ReturnsExactlyTheRuns'
  <2>1. last'[1] = s
    BY <1>3, Zenon
  <2>2. r = IF FullRun(h2, s.number) THEN Latest(h2, s.number) ELSE <<>>
    BY <1>4, <1>6
  <2>3. s.key # NoKey
    BY DEF IsFragment
  <2> QED BY <1>1, <1>4, <1>8, <2>1, <2>2, <2>3 DEF ReturnsExactlyTheRuns, Expected
<1> QED BY <1>7, <1>11, <1>12, <1>13 DEF AssemblerInv

LEMMA NextAssembler ==
    AssemblerInv /\ ReturnsExactlyTheRuns /\ [HistoryNext]_historyVars
    => AssemblerInv' /\ ReturnsExactlyTheRuns'
<1> SUFFICES ASSUME AssemblerInv, ReturnsExactlyTheRuns, [HistoryNext]_historyVars
             PROVE  AssemblerInv' /\ ReturnsExactlyTheRuns'
  OBVIOUS
<1>1. CASE HistoryNext
  BY <1>1, HearOther, HearFragment DEF HistoryNext
<1>2. CASE UNCHANGED historyVars
  BY <1>2 DEF historyVars, AssemblerInv, HistoryTypeOK, TypeOK, OnlyFragments,
     PendingIsTheOpenRun, ReturnsExactlyTheRuns, Expected
<1> QED BY <1>1, <1>2

\* Every variable keeps its type.
THEOREM AssemblerTypeCorrect == HistorySpec => []HistoryTypeOK
<1>1. HistorySpec => []AssemblerInv
  BY InitAssembler, NextAssembler, PTL DEF HistorySpec
<1>2. AssemblerInv => HistoryTypeOK
  BY DEF AssemblerInv
<1> QED BY <1>1, <1>2, PTL

\* A payload is returned exactly when an uninterrupted run of fragments of one
\* key ends with the last one, and it is that run; whatever the fields hold.
THEOREM RunsReturned == HistorySpec => []ReturnsExactlyTheRuns
BY InitAssembler, NextAssembler, PTL DEF HistorySpec

\* pending_ never keeps a group that a later fragment should not continue.
THEOREM NoStaleGroup == HistorySpec => []PendingIsTheOpenRun
<1>1. HistorySpec => []AssemblerInv
  BY InitAssembler, NextAssembler, PTL DEF HistorySpec
<1>2. AssemblerInv => PendingIsTheOpenRun
  BY DEF AssemblerInv
<1> QED BY <1>1, <1>2, PTL

\* In a run whose last fragment has just been heard, that fragment alone calls
\* itself the last.
LEMMA OneFinal ==
    ASSUME NEW h \in Seq(Sentences), NEW n \in Int, FullRun(h, n),
           \A i \in 1 .. Len(h) : IsFragment(h[i])
    PROVE  Len(Latest(h, n)) = n /\ Finals(Latest(h, n)) = {n}
<1> DEFINE a == Latest(h, n)
<1>1. /\ Len(h) \in Nat /\ n \in Nat /\ n >= 2 /\ n <= Len(h)
      /\ \A i \in 1 .. n : h[Len(h) - n + i].number = i
      /\ \A i \in 2 .. n - 1 : h[Len(h) - n + i].count # i
      /\ h[Len(h)].count = n
  BY DEF FullRun, IsRun
<1>2. Len(a) = n /\ \A i \in 1 .. n : a[i] = h[Len(h) - n + i]
  <2>1. n \in 0 .. Len(h)
    BY <1>1
  <2> QED BY <2>1, LatestElements
<1>3. \A i \in 1 .. n : a[i].number = i
  BY <1>1, <1>2
<1>4. \A i \in 1 .. n : a[i].count = i <=> i = n
  <2> SUFFICES ASSUME NEW i \in 1 .. n PROVE a[i].count = i <=> i = n
    OBVIOUS
  <2>1. a[i] = h[Len(h) - n + i] /\ Len(h) - n + i \in 1 .. Len(h)
    BY <1>1, <1>2
  <2>2. CASE i = n
    BY <1>1, <2>1, <2>2
  <2>3. CASE i = 1
    BY <1>1, <2>1, <2>3 DEF IsFragment, IsSingle
  <2>4. CASE i \in 2 .. n - 1
    BY <1>1, <2>1, <2>4
  <2>5. i = n \/ i = 1 \/ i \in 2 .. n - 1
    BY <1>1
  <2> QED BY <2>2, <2>3, <2>4, <2>5
<1> HIDE DEF a
<1>5. Finals(a) = {i \in 1 .. n : a[i].number = a[i].count}
  BY <1>2 DEF Finals
<1>6. {i \in 1 .. n : a[i].number = a[i].count} = {n}
  <2>1. n \in 1 .. n
    BY <1>1
  <2>2. \A i \in 1 .. n : a[i].number = a[i].count <=> i = n
    BY <1>3, <1>4
  <2> QED BY <2>1, <2>2, Zenon
<1> QED BY <1>2, <1>5, <1>6 DEF a

\* The fill bits of a payload are those of its last fragment and of no other: no
\* earlier fragment of a returned message calls itself the last, so the loop
\* that copies fill bits copies them once.
THEOREM FillBitsFromTheLast == HistorySpec => []FillBitsOfTheLast
<1> DEFINE Fresh == last = <<>> => out = <<>>
<1>1. HistoryInit => Fresh
  BY DEF HistoryInit, Init
<1>2. Fresh /\ [HistoryNext]_historyVars => Fresh'
  BY DEF HistoryNext, Hear, historyVars
<1>3. AssemblerInv /\ ReturnsExactlyTheRuns /\ Fresh => FillBitsOfTheLast
  <2> SUFFICES ASSUME AssemblerInv, ReturnsExactlyTheRuns, Fresh, Len(out) > 1
               PROVE  Finals(out) = {Len(out)}
    BY DEF FillBitsOfTheLast
  <2>1. last # <<>>
    BY EmptySeq
  <2>2. PICK s \in Sentences : last = <<s>> /\ last[1] = s
    BY <2>1 DEF AssemblerInv, HistoryTypeOK
  <2>3. out = Expected(s)
    BY <2>1, <2>2 DEF ReturnsExactlyTheRuns
  <2>4. Len(<<s>>) = 1 /\ Len(<<>>) = 0
    OBVIOUS
  <2>5. /\ s.key # NoKey /\ FullRun(heard[s.key], s.number)
        /\ out = Latest(heard[s.key], s.number)
    BY <2>3, <2>4 DEF Expected
  <2>6. s.key \in Keys /\ s.number \in Int
    BY <2>5, AssemblerAssumption
  <2>7. /\ heard[s.key] \in Seq(Sentences)
        /\ \A i \in 1 .. Len(heard[s.key]) : IsFragment(heard[s.key][i])
    BY <2>6 DEF AssemblerInv, HistoryTypeOK, OnlyFragments
  <2>8. Len(out) = s.number /\ Finals(out) = {s.number}
    BY <2>5, <2>6, <2>7, OneFinal
  <2> QED BY <2>8
<1> QED BY <1>1, <1>2, <1>3, InitAssembler, NextAssembler, PTL DEF HistorySpec

------------------------------------------------------------------------------
(* What the stations transmit.                                              *)

LEMMA LineFacts ==
    ASSUME NEW st \in Stations, NEW i \in 1 .. Len(Airings[st])
    PROVE  /\ Airings[st][i].count \in Nat /\ Airings[st][i].number \in Nat
           /\ 1 <= Airings[st][i].number /\ Airings[st][i].number <= Airings[st][i].count
           /\ Airings[st][i].slot \in Slots \cup {NoSlot}
           /\ Len(Airings[st]) \in Nat /\ i \in Nat
           /\ \A n \in 1 .. Airings[st][i].count :
                 \E j \in 1 .. Len(Airings[st]) : SameText(st, i, j) /\ Airings[st][j].number = n
<1>1. Len(Airings[st]) \in Nat
  BY TransmissionAssumption
<1>2. Airings[st][i].count \in Nat /\ Airings[st][i].number \in 1 .. Airings[st][i].count
  BY TransmissionAssumption
<1>3. Airings[st][i].slot \in Slots \cup {NoSlot}
  BY StageAssumption
<1>4. \A n \in 1 .. Airings[st][i].count :
         \E j \in 1 .. Len(Airings[st]) : SameText(st, i, j) /\ Airings[st][j].number = n
  BY TransmissionAssumption
<1> QED
  BY <1>1, <1>2, <1>3, <1>4

\* The fragments of a message are numbered in the order of the lines.
LEMMA InOrder ==
    ASSUME NEW st \in Stations,
           NEW i \in 1 .. Len(Airings[st]), NEW j \in 1 .. Len(Airings[st]), SameText(st, i, j)
    PROVE  /\ Airings[st][i].count = Airings[st][j].count
           /\ Airings[st][i].slot = Airings[st][j].slot
           /\ Airings[st][i].number < Airings[st][j].number <=> i < j
           /\ Airings[st][i].number = Airings[st][j].number <=> i = j
<1>1. \A a, b \in 1 .. Len(Airings[st]) :
        a < b /\ SameText(st, a, b) =>
            /\ Airings[st][a].count = Airings[st][b].count
            /\ Airings[st][a].slot = Airings[st][b].slot
            /\ Airings[st][a].number < Airings[st][b].number
  <2> DEFINE n == Len(Airings[st])
  <2>1. \A a, b \in 1 .. n :
          a < b /\ SameText(st, a, b) =>
              /\ Airings[st][a].count = Airings[st][b].count
              /\ Airings[st][a].slot = Airings[st][b].slot
              /\ Airings[st][a].number < Airings[st][b].number
              /\ \A k \in a .. b :
                    /\ Airings[st][k].slot = Airings[st][a].slot
                    /\ Airings[st][k].slot # NoSlot /\ Airings[st][k].count # 1
                    => SameText(st, a, k)
    BY TransmissionAssumption, Zenon
  <2> QED
    BY <2>1
<1>2. /\ Airings[st][i].number \in Nat /\ Airings[st][j].number \in Nat
      /\ i \in Nat /\ j \in Nat
  BY LineFacts
<1>3. SameText(st, j, i)
  BY DEF SameText
<1>4. CASE i < j
  BY <1>1, <1>2, <1>4
<1>5. CASE j < i
  BY <1>1, <1>2, <1>3, <1>5
<1>6. CASE i = j
  BY <1>2, <1>6
<1> QED
  BY <1>2, <1>4, <1>5, <1>6

\* Between two fragments of a message there are none of another with its slot.
LEMMA NothingBetween ==
    ASSUME NEW st \in Stations,
           NEW i \in 1 .. Len(Airings[st]), NEW j \in 1 .. Len(Airings[st]),
           NEW k \in 1 .. Len(Airings[st]),
           SameText(st, i, j), i < k, k < j,
           Airings[st][k].slot = Airings[st][i].slot, Airings[st][k].slot # NoSlot,
           Airings[st][k].count # 1
    PROVE  SameText(st, i, k)
<1>1. k \in i .. j /\ i < j
  BY LineFacts
<1> QED
  BY <1>1, TransmissionAssumption

LEMMA OwnTexts ==
    ASSUME NEW st \in Stations, NEW other \in Stations,
           NEW i \in 1 .. Len(Airings[st]), NEW j \in 1 .. Len(Airings[other]),
           Airings[st][i].text = Airings[other][j].text
    PROVE  st = other
  BY TransmissionAssumption

\* The sentence made of a line, and its key.
LEMMA SentenceFacts ==
    ASSUME NEW st \in Stations, NEW i \in 1 .. Len(Airings[st]), NEW src \in {st, NoSource}
    PROVE  LET s == SentenceOf(Airings[st][i], src) IN
           /\ s \in StageSentences
           /\ s.text = Airings[st][i].text /\ s.number = Airings[st][i].number
           /\ s.count = Airings[st][i].count
           /\ s.key = NoSlot <=> Airings[st][i].slot = NoSlot
           /\ s.key # NoSlot => /\ s.key = <<src, Airings[st][i].slot>>
                                /\ s.key \in StageKeys
<1>1. SentenceOf(Airings[st][i], src) \in StageSentences
  BY DEF StageSentences
<1>2. Airings[st][i].slot \in Slots \cup {NoSlot}
  BY LineFacts
<1>3. Airings[st][i].slot # NoSlot => <<src, Airings[st][i].slot>> \in StageKeys
  BY <1>2 DEF StageKeys
<1> QED
  BY <1>1, <1>3, StageAssumption DEF SentenceOf, KeyOf

------------------------------------------------------------------------------
(* The state of the stage.                                                  *)

Harmed(st, i) == <<st, i>> \in mishaps

TwoMishaps == \E x, y \in mishaps : x # y

StageTypeOK ==
    /\ groups \in [StageKeys -> Seq(StageSentences)]
    /\ messages \in Seq(Seq(StageSentences))
    /\ position \in [Stations -> Nat]
    /\ \A st \in Stations : position[st] <= Len(Airings[st])
    /\ IsFiniteSet(mishaps)
    /\ \A st \in Stations : \A i \in Nat : Harmed(st, i) => i <= position[st]

\* A sentence with key k was made of a line that has been transmitted: without a
\* source if something has happened to it.
HeardAs(s, k) ==
    \E st \in Stations : \E i \in 1 .. position[st] :
        /\ s = SentenceOf(Airings[st][i], k[1])
        /\ Airings[st][i].slot = k[2]
        /\ k[1] = IF Harmed(st, i) THEN NoSource ELSE st

\* A group is made of such sentences, numbered from 1, and none is a last one.
GroupsHeard ==
    \A k \in StageKeys : \A i \in 1 .. Len(groups[k]) :
        /\ HeardAs(groups[k][i], k)
        /\ groups[k][i].number = i /\ groups[k][i].count # i

\* The fragment that would continue a station's group has not been transmitted, or
\* something has happened to it.
NextIsDue ==
    \A st \in Stations : \A slot \in Slots : \A a \in 1 .. position[st] :
        LET g == groups[<<st, slot>>] IN
        /\ Len(g) # 0
        /\ Airings[st][a].text = g[Len(g)].text
        /\ Airings[st][a].number = Len(g) + 1
        => Harmed(st, a)

\* The first fragment of a message under way has cleared the group of everything
\* that was there before, if it arrived.
HeadClears ==
    \A st \in Stations : \A slot \in Slots :
    \A b \in 1 .. position[st] : \A c \in position[st] + 1 .. Len(Airings[st]) :
        /\ Airings[st][b].number = 1 /\ Airings[st][b].slot = slot
        /\ SameText(st, b, c) /\ ~Harmed(st, b)
        => \A i \in 1 .. Len(groups[<<st, slot>>]) :
               groups[<<st, slot>>][i].text = Airings[st][b].text

\* A message under way to which nothing has happened so far is its group.
WholeSoFar ==
    \A st \in Stations : \A slot \in Slots :
    \A b \in 1 .. position[st] : \A c \in position[st] + 1 .. Len(Airings[st]) :
        /\ Airings[st][b].slot = slot
        /\ SameText(st, b, c) /\ Airings[st][c].number = Airings[st][b].number + 1
        /\ \A i \in 1 .. position[st] : SameText(st, b, i) => ~Harmed(st, i)
        => /\ Len(groups[<<st, slot>>]) = Airings[st][b].number
           /\ \A i \in 1 .. Len(groups[<<st, slot>>]) :
                  groups[<<st, slot>>][i].text = Airings[st][b].text

StitchedGroups == \A k \in StageKeys : IsStitched(groups[k]) => TwoMishaps

StitchedMessages == \A n \in 1 .. Len(messages) : IsStitched(messages[n]) => TwoMishaps

\* The last fragment of a message.
LastOf(payload) == payload[Len(payload)]

SameFragment(a, b) == a.text = b.text /\ a.number = b.number

\* Each message has been ended by a line of its own.
EndedByALine ==
    /\ \A n \in 1 .. Len(messages) :
          \E st \in Stations : \E i \in 1 .. position[st] :
              SameFragment(LastOf(messages[n]), Airings[st][i])
    /\ \A n, m \in 1 .. Len(messages) :
          SameFragment(LastOf(messages[n]), LastOf(messages[m])) => n = m

\* payload is the message that line i of station st belongs to.
IsWhole(payload, st, i) ==
    /\ Len(payload) = Airings[st][i].count
    /\ \A j \in 1 .. Len(payload) :
           payload[j].text = Airings[st][i].text /\ payload[j].number = j

\* A message whose last fragment has been transmitted, and none of whose fragments
\* anything has happened to, has been pushed.
Delivered ==
    \A st \in Stations : \A i \in 1 .. position[st] :
        /\ Airings[st][i].number = Airings[st][i].count
        /\ Airings[st][i].text \in Decodable
        /\ Airings[st][i].slot = NoSlot => Airings[st][i].count = 1
        /\ \A j \in 1 .. position[st] : SameText(st, i, j) => ~Harmed(st, j)
        => \E n \in 1 .. Len(messages) : IsWhole(messages[n], st, i)

StageInv ==
    /\ StageTypeOK /\ GroupsHeard /\ NextIsDue /\ HeadClears /\ WholeSoFar
    /\ StitchedGroups /\ StitchedMessages /\ EndedByALine /\ Delivered

------------------------------------------------------------------------------
(* What a step does.                                                        *)

\* The next line of a station arrives, or something happens to it (h).
Arrives(st, h) ==
    /\ position[st] + 1 <= Len(Airings[st])
    /\ position' = [position EXCEPT ![st] = position[st] + 1]
    /\ mishaps' = IF h THEN mishaps \cup {<<st, position[st] + 1>>} ELSE mishaps

NextLine(st) == Airings[st][position[st] + 1]

NextSentence(st, h) == SentenceOf(NextLine(st), IF h THEN NoSource ELSE st)

\* The line is not taken, or has neither a single sentence nor a sequence id.
Ignores(st, h) ==
    /\ h \/ (NextLine(st).count # 1 /\ NextLine(st).slot = NoSlot)
    /\ UNCHANGED <<groups, messages>>

TakesSingle(st, h) ==
    /\ NextLine(st).count = 1
    /\ messages' = IF NextLine(st).text \in Decodable
                     THEN Append(messages, <<NextSentence(st, h)>>) ELSE messages
    /\ UNCHANGED groups

KeyOfNext(st, h) == <<IF h THEN NoSource ELSE st, NextLine(st).slot>>

\* The fragment turns group g of its key into g2.
Regroups(st, h, g2) ==
    /\ NextLine(st).count # 1 /\ NextLine(st).slot \in Slots
    /\ groups' = [groups EXCEPT ![KeyOfNext(st, h)] = g2]

Grown(st, h) == Append(groups[KeyOfNext(st, h)], NextSentence(st, h))

TakesFirst(st, h) ==
    /\ NextLine(st).number = 1
    /\ Regroups(st, h, <<NextSentence(st, h)>>)
    /\ UNCHANGED messages

TakesOutOfSequence(st, h) ==
    /\ NextLine(st).number # 1
    /\ NextLine(st).number # Len(groups[KeyOfNext(st, h)]) + 1
    /\ Regroups(st, h, <<>>)
    /\ UNCHANGED messages

TakesMiddle(st, h) ==
    /\ NextLine(st).number # 1
    /\ NextLine(st).number = Len(groups[KeyOfNext(st, h)]) + 1
    /\ NextLine(st).count # NextLine(st).number
    /\ Regroups(st, h, Grown(st, h))
    /\ UNCHANGED messages

TakesLast(st, h) ==
    /\ NextLine(st).number # 1
    /\ NextLine(st).number = Len(groups[KeyOfNext(st, h)]) + 1
    /\ NextLine(st).count = NextLine(st).number
    /\ Regroups(st, h, <<>>)
    /\ messages' = IF Grown(st, h)[1].text \in Decodable
                     THEN Append(messages, Grown(st, h)) ELSE messages

Takes(st, h) ==
    \/ Ignores(st, h) \/ TakesSingle(st, h) \/ TakesFirst(st, h)
    \/ TakesOutOfSequence(st, h) \/ TakesMiddle(st, h) \/ TakesLast(st, h)

\* The line that comes next.
LEMMA NextLineFacts ==
    ASSUME StageTypeOK, NEW st \in Stations, NEW h \in BOOLEAN, Arrives(st, h)
    PROVE  LET p == position[st] + 1
               s == NextSentence(st, h)
           IN  /\ p \in 1 .. Len(Airings[st]) /\ p \in Nat /\ position'[st] = p
               /\ NextLine(st) = Airings[st][p]
               /\ s \in StageSentences
               /\ s.text = NextLine(st).text /\ s.number = NextLine(st).number
               /\ s.count = NextLine(st).count
               /\ NextLine(st).number \in Nat /\ NextLine(st).number >= 1
               /\ NextLine(st).count \in Nat /\ NextLine(st).number <= NextLine(st).count
               /\ s.key = NoSlot <=> NextLine(st).slot = NoSlot
               /\ s.key # NoSlot => s.key = KeyOfNext(st, h) /\ s.key \in StageKeys
<1> DEFINE p == position[st] + 1
           src == IF h THEN NoSource ELSE st
<1>1. position[st] \in Nat /\ Len(Airings[st]) \in Nat /\ p <= Len(Airings[st])
  BY TransmissionAssumption DEF StageTypeOK, Arrives
<1>2. p \in 1 .. Len(Airings[st]) /\ p \in Nat /\ position'[st] = p
  BY <1>1 DEF StageTypeOK, Arrives
<1>3. src \in {st, NoSource}
  OBVIOUS
<1>4. NextLine(st) = Airings[st][p] /\ NextSentence(st, h) = SentenceOf(Airings[st][p], src)
      /\ KeyOfNext(st, h) = <<src, Airings[st][p].slot>>
  BY DEF NextLine, NextSentence, KeyOfNext
<1> HIDE DEF p, src
<1>5. LET s == SentenceOf(Airings[st][p], src) IN
      /\ s \in StageSentences
      /\ s.text = Airings[st][p].text /\ s.number = Airings[st][p].number
      /\ s.count = Airings[st][p].count
      /\ s.key = NoSlot <=> Airings[st][p].slot = NoSlot
      /\ s.key # NoSlot => /\ s.key = <<src, Airings[st][p].slot>>
                           /\ s.key \in StageKeys
  BY <1>2, <1>3, SentenceFacts
<1>6. /\ Airings[st][p].number \in Nat /\ Airings[st][p].number >= 1
      /\ Airings[st][p].count \in Nat /\ Airings[st][p].number <= Airings[st][p].count
  BY <1>2, LineFacts
<1> QED
  BY <1>2, <1>4, <1>5, <1>6 DEF p

\* A line whose sentence goes to the assembler.
LEMMA AddTakes ==
    ASSUME StageTypeOK, NEW st \in Stations, NEW h \in BOOLEAN, Arrives(st, h),
           Assembler!Add(NextSentence(st, h)), PushDecoded
    PROVE  Takes(st, h)
<1> DEFINE s == NextSentence(st, h)
           a == NextLine(st)
           k == KeyOfNext(st, h)
<1>1. /\ s.text = a.text /\ s.number = a.number /\ s.count = a.count
      /\ s.key = NoSlot <=> a.slot = NoSlot
      /\ s.key # NoSlot => s.key = k /\ s.key \in StageKeys
      /\ s \in StageSentences
  BY NextLineFacts
<1>2. a.slot # NoSlot => a.slot \in Slots
  BY NextLineFacts, LineFacts
<1> HIDE DEF s, a, k
<1>3. CASE Assembler!AddSingle(s)
  <2>1. result' = <<s>> /\ UNCHANGED groups /\ a.count = 1
    BY <1>1, <1>3 DEF Assembler!AddSingle, Assembler!IsSingle
  <2>2. Decodes(result') <=> a.text \in Decodable
    BY <1>1, <2>1 DEF Decodes
  <2> QED
    BY <2>1, <2>2 DEF TakesSingle, Takes, PushDecoded, s, a
<1>4. CASE Assembler!AddWithoutKey(s)
  BY <1>1, <1>4 DEF Assembler!AddWithoutKey, Assembler!IsSingle, PushDecoded, Decodes, Takes,
     Ignores, a
<1>5. CASE Assembler!AddFirst(s)
  BY <1>1, <1>2, <1>5 DEF Assembler!AddFirst, Assembler!IsFragment, Assembler!IsSingle,
     Assembler!Settle, PushDecoded, Decodes, Takes, TakesFirst, Regroups, s, a, k
<1>6. CASE Assembler!AddOutOfSequence(s)
  BY <1>1, <1>2, <1>6 DEF Assembler!AddOutOfSequence, Assembler!IsFragment, Assembler!IsSingle,
     Assembler!Follows, Assembler!Settle, PushDecoded, Decodes, Takes, TakesOutOfSequence,
     Regroups, s, a, k
<1>7. CASE Assembler!AddMiddle(s)
  BY <1>1, <1>2, <1>7 DEF Assembler!AddMiddle, Assembler!IsFragment, Assembler!IsSingle,
     Assembler!Follows, Assembler!Completes, Assembler!Settle, PushDecoded, Decodes, Takes,
     TakesMiddle, Regroups, Grown, s, a, k
<1>8. CASE Assembler!AddLast(s)
  <2>1. /\ a.number # 1 /\ a.number = Len(groups[k]) + 1 /\ a.count = a.number /\ a.count # 1
        /\ a.slot \in Slots /\ groups' = [groups EXCEPT ![k] = <<>>]
        /\ result' = Append(groups[k], s) /\ s.key = k /\ k \in StageKeys
    BY <1>1, <1>2, <1>8 DEF Assembler!AddLast, Assembler!IsFragment, Assembler!IsSingle,
       Assembler!Follows, Assembler!Completes, Assembler!Settle
  <2>2. result' # <<>>
    BY <1>1, <2>1, AppendProperties DEF StageTypeOK
  <2>3. messages' = IF result'[1].text \in Decodable THEN Append(messages, result') ELSE messages
    BY <2>2 DEF PushDecoded, Decodes
  <2> QED
    BY <2>1, <2>3 DEF Takes, TakesLast, Regroups, Grown, s, a, k
<1> QED
  BY <1>3, <1>4, <1>5, <1>6, <1>7, <1>8 DEF Assembler!Add, s

LEMMA StageSteps ==
    ASSUME StageTypeOK, StageNext
    PROVE  \E st \in Stations, h \in BOOLEAN : Arrives(st, h) /\ Takes(st, h)
<1>1. PICK st \in Stations : Arrive(st) \/ \E mishap \in Mishaps : MeetMishap(st, mishap)
  BY DEF StageNext
<1>2. position'[st] = position[st] + 1 /\ position[st] + 1 <= Len(Airings[st])
      /\ position' = [position EXCEPT ![st] = position[st] + 1]
  <2>1. Transmit(st)
    BY <1>1 DEF Arrive, MeetMishap
  <2>2. position[st] \in Nat /\ Len(Airings[st]) \in Nat
    BY TransmissionAssumption DEF StageTypeOK
  <2> QED
    BY <2>1, <2>2 DEF Transmit, StageTypeOK
<1>3. CASE Arrive(st)
  <2>1. Arrives(st, FALSE)
    BY <1>2, <1>3 DEF Arrive, Arrives
  <2>2. Assembler!Add(NextSentence(st, FALSE)) /\ PushDecoded
    BY <1>2, <1>3 DEF Arrive, Process, Accepted, SourceOf, NextSentence, NextLine
  <2> QED
    BY <2>1, <2>2, AddTakes
<1>4. CASE \E mishap \in Mishaps : MeetMishap(st, mishap)
  <2>1. PICK mishap \in Mishaps : MeetMishap(st, mishap)
    BY <1>4
  <2>2. Arrives(st, TRUE)
    BY <1>2, <2>1 DEF MeetMishap, Arrives
  <2>3. CASE Dropped
    BY <2>2, <2>3 DEF Dropped, Takes, Ignores
  <2>4. CASE ~Dropped
    <3>1. mishap \in MishapKinds /\ mishap # "lost" /\ Accepted(mishap)
          /\ Process(st, Airings[st][position'[st]], mishap)
      BY <2>1, <2>4, StageAssumption DEF MeetMishap, Process
    <3>2. mishap = "unlabelled"
      BY <3>1 DEF MishapKinds, Accepted
    <3>3. Assembler!Add(NextSentence(st, TRUE)) /\ PushDecoded
      BY <1>2, <3>1, <3>2 DEF Process, SourceOf, NextSentence, NextLine
    <3> QED
      BY <2>2, <3>3, AddTakes
  <2> QED
    BY <2>3, <2>4
<1> QED
  BY <1>1, <1>3, <1>4

------------------------------------------------------------------------------
(* What a step leaves as it was.                                            *)

LEMMA HarmLater ==
    ASSUME StageTypeOK, NEW st \in Stations, NEW h \in BOOLEAN, Arrives(st, h)
    PROVE  /\ \A o \in Stations : \A i \in 1 .. position[o] : Harmed(o, i)' <=> Harmed(o, i)
           /\ <<st, position[st] + 1>> \in mishaps' <=> h
           /\ \A o \in Stations : o # st => position'[o] = position[o]
           /\ position'[st] = position[st] + 1
           /\ \A o \in Stations : position[o] \in Nat /\ position'[o] \in Nat
                                  /\ position[o] <= position'[o]
                                  /\ position'[o] <= Len(Airings[o]) /\ Len(Airings[o]) \in Nat
           /\ mishaps \subseteq mishaps'
           /\ TwoMishaps => TwoMishaps'
<1> DEFINE p == position[st] + 1
<1>1. position[st] \in Nat /\ p \in Nat /\ p > position[st]
  BY DEF StageTypeOK
<1>2. mishaps' = IF h THEN mishaps \cup {<<st, p>>} ELSE mishaps
  BY DEF Arrives
<1>3. ~Harmed(st, p)
  BY <1>1 DEF StageTypeOK
<1> HIDE DEF p
<1>4. ASSUME NEW o \in Stations, NEW i \in 1 .. position[o]
      PROVE  Harmed(o, i)' <=> Harmed(o, i)
  <2>1. o = st => i # p
    BY <1>1
  <2> QED
    BY <1>2, <2>1 DEF Harmed
<1>5. <<st, p>> \in mishaps' <=> h
  BY <1>2, <1>3 DEF Harmed
<1>6. \A o \in Stations : o # st => position'[o] = position[o]
  BY DEF Arrives, StageTypeOK
<1>7. position'[st] = p
  BY DEF Arrives, StageTypeOK, p
<1>8. \A o \in Stations : position[o] \in Nat /\ position'[o] \in Nat
                          /\ position[o] <= position'[o]
                          /\ position'[o] <= Len(Airings[o]) /\ Len(Airings[o]) \in Nat
  <2> SUFFICES ASSUME NEW o \in Stations
               PROVE  position[o] \in Nat /\ position'[o] \in Nat
                      /\ position[o] <= position'[o]
                      /\ position'[o] <= Len(Airings[o]) /\ Len(Airings[o]) \in Nat
    OBVIOUS
  <2>1. position[o] \in Nat /\ position[o] <= Len(Airings[o]) /\ Len(Airings[o]) \in Nat
    BY TransmissionAssumption DEF StageTypeOK
  <2>2. p <= Len(Airings[st])
    BY DEF Arrives, p
  <2> QED
    BY <1>1, <1>6, <1>7, <2>1, <2>2
<1>9. mishaps \subseteq mishaps' /\ (TwoMishaps => TwoMishaps')
  BY <1>2 DEF TwoMishaps
<1> QED
  BY <1>4, <1>5, <1>6, <1>7, <1>8, <1>9 DEF p

LEMMA HeardLater ==
    ASSUME StageTypeOK, NEW st \in Stations, NEW h \in BOOLEAN, Arrives(st, h),
           NEW s, NEW k, HeardAs(s, k)
    PROVE  HeardAs(s, k)'
<1>1. PICK o \in Stations : \E i \in 1 .. position[o] :
         /\ s = SentenceOf(Airings[o][i], k[1])
         /\ Airings[o][i].slot = k[2]
         /\ k[1] = IF Harmed(o, i) THEN NoSource ELSE o
  BY DEF HeardAs
<1>2. PICK i \in 1 .. position[o] :
         /\ s = SentenceOf(Airings[o][i], k[1])
         /\ Airings[o][i].slot = k[2]
         /\ k[1] = IF Harmed(o, i) THEN NoSource ELSE o
  BY <1>1
<1>3. (Harmed(o, i)' <=> Harmed(o, i)) /\ i \in 1 .. position'[o]
  <2>1. position[o] \in Nat /\ position'[o] \in Nat /\ position[o] <= position'[o]
    BY HarmLater
  <2>2. Harmed(o, i)' <=> Harmed(o, i)
    BY HarmLater
  <2> QED
    BY <2>1, <2>2
<1> QED
  BY <1>2, <1>3 DEF HeardAs

LEMMA NextHeard ==
    ASSUME StageTypeOK, NEW st \in Stations, NEW h \in BOOLEAN, Arrives(st, h),
           NEW s, s = NextSentence(st, h), NEW k, k = KeyOfNext(st, h)
    PROVE  HeardAs(s, k)'
<1>1. PICK p : p = position[st] + 1
  OBVIOUS
<1>2. PICK src : src = IF h THEN NoSource ELSE st
  OBVIOUS
<1>3. p \in 1 .. position'[st] /\ s = SentenceOf(Airings[st][p], src)
      /\ k = <<src, Airings[st][p].slot>>
  BY <1>1, <1>2, NextLineFacts DEF NextLine, NextSentence, KeyOfNext
<1>4. Harmed(st, p)' <=> h
  BY <1>1, HarmLater DEF Harmed
<1>5. /\ s = SentenceOf(Airings[st][p], k[1]) /\ Airings[st][p].slot = k[2]
      /\ k[1] = IF Harmed(st, p)' THEN NoSource ELSE st
  BY <1>2, <1>3, <1>4
<1> QED
  BY <1>3, <1>5 DEF HeardAs

\* How the group of a key changes.
GroupGrows(g, g2, a, s) ==
    \/ a.number = 1 /\ g2 = <<s>>
    \/ g2 = <<>> /\ a.number # 1 /\ (a.number # Len(g) + 1 \/ a.count = a.number)
    \/ g2 = Append(g, s) /\ a.number # 1 /\ a.number = Len(g) + 1 /\ a.count # a.number

LEMMA GroupLater ==
    ASSUME StageTypeOK, NEW st \in Stations, NEW h \in BOOLEAN, Arrives(st, h), Takes(st, h),
           NEW k \in StageKeys
    PROVE  \/ /\ groups'[k] = groups[k]
              /\ \/ k # KeyOfNext(st, h) \/ NextLine(st).count = 1 \/ NextLine(st).slot = NoSlot
                 \/ h
           \/ /\ k = KeyOfNext(st, h) /\ NextLine(st).count # 1 /\ NextLine(st).slot \in Slots
              /\ GroupGrows(groups[k], groups'[k], NextLine(st), NextSentence(st, h))
<1>1. groups \in [StageKeys -> Seq(StageSentences)]
  BY DEF StageTypeOK
<1>2. CASE Ignores(st, h) \/ TakesSingle(st, h)
  BY <1>2 DEF Ignores, TakesSingle
<1>3. ASSUME NEW g2, Regroups(st, h, g2),
             GroupGrows(groups[KeyOfNext(st, h)], g2, NextLine(st), NextSentence(st, h))
      PROVE  \/ groups'[k] = groups[k] /\ k # KeyOfNext(st, h)
             \/ /\ k = KeyOfNext(st, h) /\ NextLine(st).count # 1 /\ NextLine(st).slot \in Slots
                /\ GroupGrows(groups[k], groups'[k], NextLine(st), NextSentence(st, h))
  <2>1. CASE k = KeyOfNext(st, h)
    <3>1. groups'[k] = g2 /\ NextLine(st).count # 1 /\ NextLine(st).slot \in Slots
      BY <1>1, <1>3, <2>1 DEF Regroups
    <3> QED
      BY <1>3, <2>1, <3>1
  <2>2. CASE k # KeyOfNext(st, h)
    BY <1>1, <1>3, <2>2 DEF Regroups
  <2> QED
    BY <2>1, <2>2
<1>4. CASE TakesFirst(st, h)
  BY <1>3, <1>4 DEF TakesFirst, GroupGrows
<1>5. CASE TakesOutOfSequence(st, h)
  BY <1>3, <1>5 DEF TakesOutOfSequence, GroupGrows
<1>6. CASE TakesMiddle(st, h)
  BY <1>3, <1>6 DEF TakesMiddle, GroupGrows, Grown
<1>7. CASE TakesLast(st, h)
  BY <1>3, <1>7 DEF TakesLast, GroupGrows
<1> QED
  BY <1>2, <1>4, <1>5, <1>6, <1>7 DEF Takes

LEMMA GrownFacts ==
    ASSUME StageTypeOK, NEW st \in Stations, NEW h \in BOOLEAN, Arrives(st, h),
           NEW k \in StageKeys
    PROVE  LET g == groups[k]
               r == Append(g, NextSentence(st, h))
           IN  /\ g \in Seq(StageSentences) /\ Len(g) \in Nat /\ r \in Seq(StageSentences)
               /\ Len(r) = Len(g) + 1 /\ r[Len(g) + 1] = NextSentence(st, h)
               /\ \A i \in 1 .. Len(g) : r[i] = g[i]
               /\ <<NextSentence(st, h)>> \in Seq(StageSentences)
               /\ Len(<<NextSentence(st, h)>>) = 1 /\ <<NextSentence(st, h)>>[1] = NextSentence(st, h)
<1>1. NextSentence(st, h) \in StageSentences /\ groups[k] \in Seq(StageSentences)
  BY NextLineFacts DEF StageTypeOK
<1> QED
  BY <1>1, AppendElements

LEMMA TypeLater ==
    ASSUME StageTypeOK, NEW st \in Stations, NEW h \in BOOLEAN, Arrives(st, h), Takes(st, h)
    PROVE  StageTypeOK'
<1>1. groups' \in [StageKeys -> Seq(StageSentences)]
  <2>1. ASSUME NEW g2 \in Seq(StageSentences), Regroups(st, h, g2)
        PROVE  groups' \in [StageKeys -> Seq(StageSentences)]
    BY <2>1 DEF StageTypeOK, Regroups
  <2>2. CASE UNCHANGED groups
    BY <2>2 DEF StageTypeOK
  <2>3. NextLine(st).slot \in Slots => KeyOfNext(st, h) \in StageKeys
    BY DEF KeyOfNext, StageKeys
  <2>4. NextLine(st).slot \in Slots => Grown(st, h) \in Seq(StageSentences)
    BY <2>3, GrownFacts DEF Grown
  <2>5. <<NextSentence(st, h)>> \in Seq(StageSentences) /\ <<>> \in Seq(StageSentences)
    BY NextLineFacts, EmptySeq
  <2> QED
    BY <2>1, <2>2, <2>4, <2>5 DEF Takes, Ignores, TakesSingle, TakesFirst, TakesOutOfSequence,
       TakesMiddle, TakesLast, Regroups
<1>2. messages' \in Seq(Seq(StageSentences))
  <2>1. messages \in Seq(Seq(StageSentences))
    BY DEF StageTypeOK
  <2>2. ASSUME NEW r \in Seq(StageSentences), messages' = Append(messages, r)
        PROVE  messages' \in Seq(Seq(StageSentences))
    BY <2>1, <2>2, AppendProperties
  <2>3. <<NextSentence(st, h)>> \in Seq(StageSentences)
    BY NextLineFacts
  <2>4. NextLine(st).slot \in Slots => Grown(st, h) \in Seq(StageSentences)
    <3>1. NextLine(st).slot \in Slots => KeyOfNext(st, h) \in StageKeys
      BY DEF KeyOfNext, StageKeys
    <3> QED
      BY <3>1, GrownFacts DEF Grown
  <2> QED
    BY <2>1, <2>2, <2>3, <2>4 DEF Takes, Ignores, TakesSingle, TakesFirst, TakesOutOfSequence,
       TakesMiddle, TakesLast, Regroups
<1>3. position' \in [Stations -> Nat] /\ \A o \in Stations : position'[o] <= Len(Airings[o])
  <2>1. position' \in [Stations -> Nat]
    BY DEF StageTypeOK, Arrives
  <2> QED
    BY <2>1, HarmLater
<1>4. IsFiniteSet(mishaps')
  BY FS_AddElement DEF StageTypeOK, Arrives
<1>5. \A o \in Stations : \A i \in Nat : Harmed(o, i)' => i <= position'[o]
  <2> SUFFICES ASSUME NEW o \in Stations, NEW i \in Nat, Harmed(o, i)' PROVE i <= position'[o]
    OBVIOUS
  <2>1. position[o] \in Nat /\ position'[o] \in Nat /\ position[o] <= position'[o]
    BY HarmLater
  <2>2. CASE Harmed(o, i)
    BY <2>1, <2>2 DEF StageTypeOK
  <2>3. CASE <<o, i>> = <<st, position[st] + 1>>
    <3>1. o = st /\ i = position[st] + 1
      BY <2>3
    <3>2. position'[st] = position[st] + 1
      BY HarmLater
    <3> QED
      BY <2>1, <3>1, <3>2
  <2>4. Harmed(o, i) \/ <<o, i>> = <<st, position[st] + 1>>
    BY DEF Harmed, Arrives
  <2> QED
    BY <2>2, <2>3, <2>4
<1> QED
  BY <1>1, <1>2, <1>3, <1>4, <1>5 DEF StageTypeOK

------------------------------------------------------------------------------
(* The groups of the stations.                                              *)

LEMMA GroupElement ==
    ASSUME StageTypeOK, GroupsHeard, NEW st \in Stations, NEW slot \in Slots,
           NEW i \in 1 .. Len(groups[<<st, slot>>])
    PROVE  LET e == groups[<<st, slot>>][i] IN
           /\ e.number = i /\ e.count # i
           /\ \E l \in 1 .. position[st] :
                 /\ l \in 1 .. Len(Airings[st]) /\ ~Harmed(st, l)
                 /\ Airings[st][l].text = e.text /\ Airings[st][l].number = i
                 /\ Airings[st][l].count = e.count /\ Airings[st][l].slot = slot
<1> DEFINE k == <<st, slot>>
           e == groups[k][i]
<1>1. k \in StageKeys /\ k[1] = st /\ k[2] = slot /\ st # NoSource
  BY StageAssumption DEF StageKeys
<1> HIDE DEF k
<1>2. HeardAs(e, k) /\ e.number = i /\ e.count # i
  BY <1>1 DEF GroupsHeard, k
<1>3. PICK o \in Stations : \E l \in 1 .. position[o] :
         /\ e = SentenceOf(Airings[o][l], k[1])
         /\ Airings[o][l].slot = k[2]
         /\ k[1] = IF Harmed(o, l) THEN NoSource ELSE o
  BY <1>2 DEF HeardAs
<1>4. PICK l \in 1 .. position[o] :
         /\ e = SentenceOf(Airings[o][l], k[1])
         /\ Airings[o][l].slot = k[2]
         /\ k[1] = IF Harmed(o, l) THEN NoSource ELSE o
  BY <1>3
<1>5. o = st /\ ~Harmed(st, l)
  BY <1>1, <1>4
<1>6. l \in 1 .. Len(Airings[st])
  BY <1>4, <1>5, TransmissionAssumption DEF StageTypeOK
<1>7. e.text = Airings[st][l].text /\ e.number = Airings[st][l].number
      /\ e.count = Airings[st][l].count
  BY <1>4, <1>5 DEF SentenceOf
<1> QED
  BY <1>1, <1>2, <1>4, <1>5, <1>6, <1>7 DEF k, e

\* A group that has changed ends with the fragment that has just come, or is empty.
LEMMA GrownShape ==
    ASSUME StageTypeOK, NEW st \in Stations, NEW h \in BOOLEAN, Arrives(st, h),
           NEW k \in StageKeys, NEW g2, NextLine(st).count # 1,
           GroupGrows(groups[k], g2, NextLine(st), NextSentence(st, h))
    PROVE  \/ g2 = <<>> /\ Len(g2) = 0
           \/ /\ Len(g2) = NextLine(st).number /\ Len(g2) \in Nat /\ Len(g2) >= 1
              /\ NextLine(st).count # NextLine(st).number
              /\ g2[Len(g2)] = NextSentence(st, h)
              /\ \A i \in 1 .. Len(g2) :
                    i = Len(g2) \/ (i \in 1 .. Len(groups[k]) /\ g2[i] = groups[k][i])
<1> DEFINE s == NextSentence(st, h)
           g == groups[k]
           r == Append(g, s)
<1>1. /\ Len(g) \in Nat /\ Len(r) = Len(g) + 1 /\ r[Len(g) + 1] = s
      /\ \A i \in 1 .. Len(g) : r[i] = g[i]
      /\ Len(<<s>>) = 1 /\ <<s>>[1] = s
  BY GrownFacts
<1>2. NextLine(st).number \in Nat
  BY NextLineFacts
<1> HIDE DEF s, g
<1>3. CASE NextLine(st).number = 1 /\ g2 = <<s>>
  BY <1>1, <1>3 DEF s, g
<1>4. CASE g2 = <<>>
  BY <1>4
<1>5. CASE g2 = r /\ NextLine(st).number = Len(g) + 1
           /\ NextLine(st).count # NextLine(st).number
  <2> HIDE DEF r
  <2> QED
    BY <1>1, <1>5 DEF s, g
<1> QED
  BY <1>3, <1>4, <1>5 DEF GroupGrows, s, g

LEMMA GroupsHeardLater ==
    ASSUME StageTypeOK, GroupsHeard,
           NEW st \in Stations, NEW h \in BOOLEAN, Arrives(st, h), Takes(st, h)
    PROVE  GroupsHeard'
<1> SUFFICES ASSUME NEW k \in StageKeys, NEW i \in 1 .. Len(groups'[k]),
                    NEW e, e = groups'[k][i]
             PROVE  HeardAs(e, k)' /\ e.number = i /\ e.count # i
  BY DEF GroupsHeard
<1> DEFINE s == NextSentence(st, h)
<1>1. s.number = NextLine(st).number /\ s.count = NextLine(st).count
  BY NextLineFacts
<1>2. ASSUME NEW j \in 1 .. Len(groups[k]), e = groups[k][j], i = j
      PROVE  HeardAs(e, k)' /\ e.number = i /\ e.count # i
  <2>1. HeardAs(e, k) /\ e.number = i /\ e.count # i
    BY <1>2 DEF GroupsHeard
  <2> QED
    BY <2>1, HeardLater
<1>3. CASE groups'[k] = groups[k]
  BY <1>2, <1>3
<1>4. CASE /\ k = KeyOfNext(st, h) /\ NextLine(st).count # 1
           /\ GroupGrows(groups[k], groups'[k], NextLine(st), s)
  <2>1. PICK g2 : g2 = groups'[k]
    OBVIOUS
  <2>2. /\ Len(g2) = NextLine(st).number /\ Len(g2) \in Nat /\ Len(g2) >= 1
        /\ NextLine(st).count # NextLine(st).number
        /\ g2[Len(g2)] = s
        /\ \A j \in 1 .. Len(g2) :
              j = Len(g2) \/ (j \in 1 .. Len(groups[k]) /\ g2[j] = groups[k][j])
    BY <1>4, <2>1, GrownShape
  <2>3. CASE i = Len(g2)
    <3>1. e = s /\ e.number = i /\ e.count # i
      BY <1>1, <2>1, <2>2, <2>3
    <3>2. HeardAs(e, k)'
      BY <1>4, <3>1, NextHeard
    <3> QED
      BY <3>1, <3>2
  <2>4. CASE i \in 1 .. Len(groups[k]) /\ g2[i] = groups[k][i]
    BY <1>2, <2>1, <2>4
  <2> QED
    BY <2>1, <2>2, <2>3, <2>4
<1> QED
  BY <1>3, <1>4, GroupLater

\* A group of a station only changes with a line of that station to which nothing
\* has happened, and with its slot.
LEMMA StationGroupLater ==
    ASSUME StageTypeOK, NEW st \in Stations, NEW h \in BOOLEAN, Arrives(st, h), Takes(st, h),
           NEW o \in Stations, NEW slot \in Slots
    PROVE  LET k == <<o, slot>> IN
           /\ k \in StageKeys /\ slot # NoSlot
           /\ \/ /\ groups'[k] = groups[k]
                 /\ h \/ o # st \/ NextLine(st).slot # slot \/ NextLine(st).count = 1
              \/ /\ ~h /\ o = st /\ NextLine(st).slot = slot /\ NextLine(st).count # 1
                 /\ GroupGrows(groups[k], groups'[k], NextLine(st), NextSentence(st, h))
<1> DEFINE k == <<o, slot>>
<1>1. k \in StageKeys /\ o # NoSource /\ slot # NoSlot
  BY StageAssumption DEF StageKeys
<1>2. k = KeyOfNext(st, h) <=> ~h /\ o = st /\ NextLine(st).slot = slot
  <2>1. k = KeyOfNext(st, h) <=> o = (IF h THEN NoSource ELSE st) /\ slot = NextLine(st).slot
    BY DEF KeyOfNext
  <2> QED
    BY <1>1, <2>1
<1> HIDE DEF k
<1>3. \/ /\ groups'[k] = groups[k]
         /\ \/ k # KeyOfNext(st, h) \/ NextLine(st).count = 1 \/ NextLine(st).slot = NoSlot
            \/ h
      \/ /\ k = KeyOfNext(st, h) /\ NextLine(st).count # 1 /\ NextLine(st).slot \in Slots
         /\ GroupGrows(groups[k], groups'[k], NextLine(st), NextSentence(st, h))
  BY <1>1, GroupLater
<1> QED
  BY <1>1, <1>2, <1>3 DEF k

\* The lines that have been transmitted, before and after the step.
LEMMA TransmittedLater ==
    ASSUME StageTypeOK, NEW st \in Stations, NEW h \in BOOLEAN, Arrives(st, h),
           NEW o \in Stations
    PROVE  /\ position[o] \in Nat /\ Len(Airings[o]) \in Nat
           /\ \A i \in 1 .. position'[o] :
                 /\ i \in 1 .. Len(Airings[o])
                 /\ i \in 1 .. position[o] \/ (o = st /\ i = position[st] + 1)
                 /\ o # st => i \in 1 .. position[o]
           /\ \A i \in 1 .. position[o] : i \in 1 .. position'[o]
           /\ \A c \in position'[o] + 1 .. Len(Airings[o]) :
                 /\ c \in position[o] + 1 .. Len(Airings[o]) /\ c \in 1 .. Len(Airings[o])
                 /\ o = st => c > position[st] + 1
           /\ position[st] + 1 \in position[st] + 1 .. Len(Airings[st])
<1>1. /\ position[o] \in Nat /\ position'[o] \in Nat /\ position[o] <= position'[o]
      /\ position'[o] <= Len(Airings[o]) /\ Len(Airings[o]) \in Nat
      /\ o # st => position'[o] = position[o]
      /\ position'[st] = position[st] + 1
  BY HarmLater
<1>2. position[st] + 1 \in 1 .. Len(Airings[st]) /\ position[st] \in Nat
  BY NextLineFacts DEF StageTypeOK
<1> QED
  BY <1>1, <1>2

LEMMA NextIsDueLater ==
    ASSUME StageTypeOK, GroupsHeard, NextIsDue,
           NEW st \in Stations, NEW h \in BOOLEAN, Arrives(st, h), Takes(st, h)
    PROVE  NextIsDue'
<1> SUFFICES ASSUME NEW o \in Stations, NEW slot \in Slots, NEW a \in 1 .. position'[o],
                    NEW g2, g2 = groups'[<<o, slot>>],
                    Len(g2) # 0, Airings[o][a].text = g2[Len(g2)].text,
                    Airings[o][a].number = Len(g2) + 1
             PROVE  <<o, a>> \in mishaps'
  BY DEF NextIsDue, Harmed
<1> DEFINE k == <<o, slot>>
           g == groups[k]
<1>1. /\ k \in StageKeys /\ slot # NoSlot
      /\ \/ /\ groups'[k] = groups[k]
            /\ h \/ o # st \/ NextLine(st).slot # slot \/ NextLine(st).count = 1
         \/ /\ ~h /\ o = st /\ NextLine(st).slot = slot /\ NextLine(st).count # 1
            /\ GroupGrows(groups[k], groups'[k], NextLine(st), NextSentence(st, h))
  BY StationGroupLater
<1>2. /\ a \in 1 .. Len(Airings[o])
      /\ a \in 1 .. position[o] \/ (o = st /\ a = position[st] + 1)
  BY TransmittedLater
<1>3. CASE groups'[k] = groups[k]
           /\ (h \/ o # st \/ NextLine(st).slot # slot \/ NextLine(st).count = 1)
  <2>1. CASE a \in 1 .. position[o]
    <3>1. Harmed(o, a)
      BY <1>3, <2>1 DEF NextIsDue
    <3> QED
      BY <3>1, HarmLater DEF Harmed
  <2>2. CASE o = st /\ a = position[st] + 1
    <3>1. h => <<o, a>> \in mishaps'
      BY <2>2, HarmLater
    <3>2. CASE ~h
      <4>1. Len(g) \in Nat
        BY <1>1, LenProperties DEF StageTypeOK
      <4>2. g2 = g /\ Len(g) \in 1 .. Len(g)
        BY <1>3, <4>1
      <4> HIDE DEF g
      <4>3. PICK l \in 1 .. position[st] :
              /\ l \in 1 .. Len(Airings[st]) /\ Airings[st][l].text = g[Len(g)].text
              /\ Airings[st][l].slot = slot
        BY <2>2, <4>2, GroupElement DEF g
      <4>4. SameText(st, l, a)
        BY <2>2, <4>2, <4>3 DEF SameText
      <4>5. Airings[st][a].slot = slot
        BY <1>2, <2>2, <4>3, <4>4, InOrder
      <4>6. Airings[st][a].count # 1
        <5>1. a \in 1 .. Len(Airings[st]) /\ Airings[st][a].number = Len(g) + 1
          BY <1>2, <2>2, <4>2
        <5>2. Airings[st][a].number <= Airings[st][a].count /\ Airings[st][a].count \in Nat
          BY <5>1, LineFacts
        <5> QED
          BY <4>1, <4>2, <5>1, <5>2
      <4> QED
        BY <1>3, <2>2, <3>2, <4>5, <4>6 DEF NextLine
    <3> QED
      BY <3>1, <3>2
  <2> QED
    BY <1>2, <2>1, <2>2
<1>4. CASE /\ ~h /\ o = st /\ NextLine(st).slot = slot /\ NextLine(st).count # 1
           /\ GroupGrows(groups[k], groups'[k], NextLine(st), NextSentence(st, h))
  <2>1. PICK p : p = position[st] + 1
    OBVIOUS
  <2>2. Len(g2) = NextLine(st).number /\ g2[Len(g2)] = NextSentence(st, h)
    BY <1>1, <1>4, GrownShape
  <2>3. p \in 1 .. Len(Airings[st]) /\ NextSentence(st, h).text = Airings[st][p].text
        /\ NextLine(st) = Airings[st][p] /\ p \in Nat
    BY <2>1, NextLineFacts
  <2>4. SameText(st, p, a) /\ Airings[st][a].number = Airings[st][p].number + 1
    BY <1>4, <2>2, <2>3 DEF SameText
  <2>5. Airings[st][p].number < Airings[st][a].number <=> p < a
    BY <1>2, <1>4, <2>3, <2>4, InOrder
  <2>6. Airings[st][p].number \in Nat
    BY <2>3, LineFacts
  <2>7. p < a
    BY <2>4, <2>5, <2>6
  <2>8. a <= p
    BY <1>2, <1>4, <2>1, TransmittedLater
  <2>9. a \in Nat
    BY <1>2
  <2> QED
    BY <2>3, <2>7, <2>8, <2>9
<1> QED
  BY <1>1, <1>3, <1>4

LEMMA GrownElement ==
    ASSUME StageTypeOK, NEW st \in Stations, NEW h \in BOOLEAN, Arrives(st, h),
           NEW k \in StageKeys, NEW g2, NextLine(st).count # 1,
           GroupGrows(groups[k], g2, NextLine(st), NextSentence(st, h)),
           NEW i \in 1 .. Len(g2)
    PROVE  \/ i = NextLine(st).number /\ g2[i] = NextSentence(st, h)
           \/ i \in 1 .. Len(groups[k]) /\ g2[i] = groups[k][i] /\ i < NextLine(st).number
<1>1. \/ g2 = <<>> /\ Len(g2) = 0
      \/ /\ Len(g2) = NextLine(st).number /\ Len(g2) \in Nat /\ Len(g2) >= 1
         /\ NextLine(st).count # NextLine(st).number
         /\ g2[Len(g2)] = NextSentence(st, h)
         /\ \A j \in 1 .. Len(g2) :
               j = Len(g2) \/ (j \in 1 .. Len(groups[k]) /\ g2[j] = groups[k][j])
  BY GrownShape
<1>2. CASE g2 = <<>> /\ Len(g2) = 0
  BY <1>2
<1> QED
  BY <1>1, <1>2

LEMMA HeadClearsLater ==
    ASSUME StageTypeOK, HeadClears,
           NEW st \in Stations, NEW h \in BOOLEAN, Arrives(st, h), Takes(st, h)
    PROVE  HeadClears'
<1> SUFFICES ASSUME NEW o \in Stations, NEW slot \in Slots,
                    NEW b \in 1 .. position'[o], NEW c \in position'[o] + 1 .. Len(Airings[o]),
                    Airings[o][b].number = 1, Airings[o][b].slot = slot, SameText(o, b, c),
                    <<o, b>> \notin mishaps',
                    NEW g2, g2 = groups'[<<o, slot>>], NEW i \in 1 .. Len(g2)
             PROVE  g2[i].text = Airings[o][b].text
  BY DEF HeadClears, Harmed
<1>10. PICK k : k = <<o, slot>>
  OBVIOUS
<1> DEFINE g == groups[k]
<1>1. PICK p : p = position[st] + 1
  OBVIOUS
<1>2. /\ b \in 1 .. Len(Airings[o]) /\ c \in 1 .. Len(Airings[o])
      /\ c \in position[o] + 1 .. Len(Airings[o]) /\ (o = st => c > p)
      /\ b \in 1 .. position[o] \/ (o = st /\ b = p)
      /\ position[o] \in Nat
  BY <1>1, TransmittedLater
<1>3. /\ p \in 1 .. Len(Airings[st]) /\ NextSentence(st, h).text = Airings[st][p].text
      /\ NextLine(st) = Airings[st][p] /\ p \in Nat
  BY <1>1, NextLineFacts
<1>4. b < c /\ b \in Nat /\ c \in Nat
  BY <1>2
<1>5. Airings[o][b].count \in Nat /\ Airings[o][b].count # 1
  <2>1. Airings[o][b].number < Airings[o][c].number /\ Airings[o][b].count = Airings[o][c].count
    BY <1>2, <1>4, InOrder
  <2>2. /\ Airings[o][c].number \in Nat /\ Airings[o][c].count \in Nat
        /\ Airings[o][c].number <= Airings[o][c].count
    BY <1>2, LineFacts
  <2> QED
    BY <2>1, <2>2
<1>6. /\ k \in StageKeys /\ slot # NoSlot
      /\ \/ /\ groups'[k] = groups[k]
            /\ h \/ o # st \/ NextLine(st).slot # slot \/ NextLine(st).count = 1
         \/ /\ ~h /\ o = st /\ NextLine(st).slot = slot /\ NextLine(st).count # 1
            /\ GroupGrows(groups[k], groups'[k], NextLine(st), NextSentence(st, h))
  BY <1>10, StationGroupLater
<1>7. b \in 1 .. position[o] => \A j \in 1 .. Len(g) : g[j].text = Airings[o][b].text
  <2> SUFFICES ASSUME b \in 1 .. position[o]
               PROVE  \A j \in 1 .. Len(g) : g[j].text = Airings[o][b].text
    OBVIOUS
  <2>1. ~Harmed(o, b)
    BY HarmLater DEF Harmed
  <2> QED
    BY <1>2, <1>10, <2>1 DEF HeadClears
<1>8. CASE groups'[k] = groups[k]
           /\ (h \/ o # st \/ NextLine(st).slot # slot \/ NextLine(st).count = 1)
  <2>1. CASE b \in 1 .. position[o]
    BY <1>7, <1>8, <1>10, <2>1
  <2>2. CASE o = st /\ b = p
    <3>1. ~h
      BY <1>1, <2>2, HarmLater
    <3> QED
      BY <1>3, <1>5, <1>8, <2>2, <3>1
  <2> QED
    BY <1>2, <2>1, <2>2
<1>9. CASE /\ ~h /\ o = st /\ NextLine(st).slot = slot /\ NextLine(st).count # 1
           /\ GroupGrows(groups[k], groups'[k], NextLine(st), NextSentence(st, h))
  <2>1. \/ i = NextLine(st).number /\ g2[i] = NextSentence(st, h)
        \/ i \in 1 .. Len(groups[k]) /\ g2[i] = groups[k][i] /\ i < NextLine(st).number
    <3>1. GroupGrows(groups[k], g2, NextLine(st), NextSentence(st, h))
      BY <1>9, <1>10
    <3>2. NextLine(st).count # 1 /\ k \in StageKeys
      BY <1>6, <1>9
    <3> QED
      BY <3>1, <3>2, GrownElement
  <2>2. CASE b \in 1 .. position[o]
    <3>1. b < p /\ p < c
      BY <1>1, <1>2, <1>3, <1>4, <1>9, <2>2
    <3>2. SameText(st, b, p)
      BY <1>2, <1>3, <1>4, <1>6, <1>9, <3>1, NothingBetween
    <3>3. NextSentence(st, h).text = Airings[o][b].text
      BY <1>3, <1>9, <3>2 DEF SameText
    <3> QED
      BY <1>7, <2>1, <2>2, <3>3
  <2>3. CASE o = st /\ b = p
    BY <1>3, <2>1, <2>3
  <2> QED
    BY <1>2, <2>2, <2>3
<1> QED
  BY <1>6, <1>8, <1>9

\* The group that the next fragment of an intact message finds.
LEMMA WholeBefore ==
    ASSUME StageTypeOK, WholeSoFar,
           NEW st \in Stations, NEW h \in BOOLEAN, Arrives(st, h),
           NEW p, p = position[st] + 1,
           NextLine(st).slot \in Slots, NextLine(st).number # 1,
           \A i \in 1 .. position'[st] : SameText(st, p, i) => <<st, i>> \notin mishaps'
    PROVE  LET g == groups[<<st, NextLine(st).slot>>] IN
           /\ NextLine(st).number = Len(g) + 1 /\ Len(g) \in Nat /\ Len(g) >= 1
           /\ \A i \in 1 .. Len(g) : g[i].text = NextLine(st).text
<1> DEFINE k == <<st, NextLine(st).slot>>
<1>1. /\ p \in 1 .. Len(Airings[st]) /\ p \in Nat /\ NextLine(st) = Airings[st][p]
      /\ p \in position[st] + 1 .. Len(Airings[st]) /\ position[st] \in Nat
  BY NextLineFacts, TransmittedLater
<1>2. /\ Airings[st][p].number \in Nat /\ Airings[st][p].number >= 1
      /\ Airings[st][p].count \in Nat /\ Airings[st][p].number <= Airings[st][p].count
      /\ \A n \in 1 .. Airings[st][p].count :
            \E j \in 1 .. Len(Airings[st]) : SameText(st, p, j) /\ Airings[st][j].number = n
  BY <1>1, LineFacts
<1>3. PICK b \in 1 .. Len(Airings[st]) :
        SameText(st, p, b) /\ Airings[st][b].number = Airings[st][p].number - 1
  <2>1. Airings[st][p].number - 1 \in 1 .. Airings[st][p].count
    BY <1>1, <1>2
  <2> QED
    BY <1>2, <2>1
<1>4. SameText(st, b, p)
  BY <1>3 DEF SameText
<1>5. Airings[st][p].number = Airings[st][b].number + 1
      /\ Airings[st][b].number < Airings[st][p].number
  BY <1>2, <1>3
<1>6. b < p /\ Airings[st][b].slot = Airings[st][p].slot
  BY <1>1, <1>4, <1>5, InOrder
<1>7. b \in 1 .. position[st]
  BY <1>1, <1>6
<1>8. \A i \in 1 .. position[st] : SameText(st, b, i) => ~Harmed(st, i)
  <2> SUFFICES ASSUME NEW i \in 1 .. position[st], SameText(st, b, i) PROVE ~Harmed(st, i)
    OBVIOUS
  <2>1. SameText(st, p, i)
    BY <1>4 DEF SameText
  <2>2. i \in 1 .. position'[st]
    BY TransmittedLater
  <2>3. <<st, i>> \notin mishaps'
    BY <2>1, <2>2
  <2> QED
    BY <2>3, HarmLater DEF Harmed
<1>9. k = <<st, Airings[st][b].slot>> /\ Airings[st][b].slot \in Slots
  BY <1>1, <1>6
<1>10. /\ Len(groups[k]) = Airings[st][b].number
       /\ \A i \in 1 .. Len(groups[k]) : groups[k][i].text = Airings[st][b].text
  BY <1>1, <1>4, <1>5, <1>7, <1>8, <1>9 DEF WholeSoFar
<1>11. Airings[st][b].number \in Nat /\ Airings[st][b].number >= 1
  BY LineFacts
<1>12. NextLine(st).text = Airings[st][b].text
  BY <1>1, <1>4 DEF SameText
<1> HIDE DEF k
<1>13. /\ NextLine(st).number = Len(groups[k]) + 1 /\ Len(groups[k]) \in Nat /\ Len(groups[k]) >= 1
       /\ \A i \in 1 .. Len(groups[k]) : groups[k][i].text = NextLine(st).text
  BY <1>1, <1>5, <1>10, <1>11, <1>12
<1> QED
  BY <1>13 DEF k

LEMMA WholeSoFarLater ==
    ASSUME StageTypeOK, WholeSoFar,
           NEW st \in Stations, NEW h \in BOOLEAN, Arrives(st, h), Takes(st, h)
    PROVE  WholeSoFar'
<1> SUFFICES ASSUME NEW o \in Stations, NEW slot \in Slots,
                    NEW b \in 1 .. position'[o], NEW c \in position'[o] + 1 .. Len(Airings[o]),
                    Airings[o][b].slot = slot, SameText(o, b, c),
                    Airings[o][c].number = Airings[o][b].number + 1,
                    \A i \in 1 .. position'[o] : SameText(o, b, i) => <<o, i>> \notin mishaps',
                    NEW g2, g2 = groups'[<<o, slot>>]
             PROVE  /\ Len(g2) = Airings[o][b].number
                    /\ \A i \in 1 .. Len(g2) : g2[i].text = Airings[o][b].text
  BY DEF WholeSoFar, Harmed
<1> DEFINE k == <<o, slot>>
           g == groups[k]
<1>1. PICK p : p = position[st] + 1
  OBVIOUS
<1>2. /\ b \in 1 .. Len(Airings[o]) /\ c \in 1 .. Len(Airings[o])
      /\ c \in position[o] + 1 .. Len(Airings[o]) /\ (o = st => c > p)
      /\ b \in 1 .. position[o] \/ (o = st /\ b = p)
      /\ position[o] \in Nat
  BY <1>1, TransmittedLater
<1>3. /\ p \in 1 .. Len(Airings[st]) /\ NextSentence(st, h).text = Airings[st][p].text
      /\ NextLine(st) = Airings[st][p] /\ p \in Nat
  BY <1>1, NextLineFacts
<1>4. b < c /\ b \in Nat /\ c \in Nat
  BY <1>2
<1>5. /\ Airings[o][b].count \in Nat /\ Airings[o][b].count # 1
      /\ Airings[o][b].number \in Nat /\ Airings[o][b].number >= 1
      /\ Airings[o][b].count # Airings[o][b].number
  <2>1. Airings[o][b].count = Airings[o][c].count
    BY <1>2, InOrder
  <2>2. /\ Airings[o][c].number \in Nat /\ Airings[o][c].count \in Nat
        /\ Airings[o][c].number <= Airings[o][c].count
        /\ Airings[o][b].number \in Nat /\ Airings[o][b].number >= 1
    BY <1>2, LineFacts
  <2> QED
    BY <2>1, <2>2
<1>6. /\ k \in StageKeys /\ slot # NoSlot
      /\ \/ /\ groups'[k] = groups[k]
            /\ h \/ o # st \/ NextLine(st).slot # slot \/ NextLine(st).count = 1
         \/ /\ ~h /\ o = st /\ NextLine(st).slot = slot /\ NextLine(st).count # 1
            /\ GroupGrows(groups[k], groups'[k], NextLine(st), NextSentence(st, h))
  BY StationGroupLater
<1>7. CASE groups'[k] = groups[k]
           /\ (h \/ o # st \/ NextLine(st).slot # slot \/ NextLine(st).count = 1)
  <2>1. CASE b \in 1 .. position[o]
    <3>1. \A i \in 1 .. position[o] : SameText(o, b, i) => ~Harmed(o, i)
      <4> SUFFICES ASSUME NEW i \in 1 .. position[o], SameText(o, b, i) PROVE ~Harmed(o, i)
        OBVIOUS
      <4>1. i \in 1 .. position'[o]
        BY TransmittedLater
      <4>2. <<o, i>> \notin mishaps'
        BY <4>1
      <4> QED
        BY <4>2, HarmLater DEF Harmed
    <3>2. /\ Len(g) = Airings[o][b].number
          /\ \A i \in 1 .. Len(g) : g[i].text = Airings[o][b].text
      BY <1>2, <2>1, <3>1 DEF WholeSoFar
    <3> QED
      BY <1>7, <3>2
  <2>2. CASE o = st /\ b = p
    <3>1. ~h
      <4>1. SameText(o, b, b)
        BY DEF SameText
      <4>2. <<o, b>> \notin mishaps'
        BY <4>1
      <4> QED
        BY <1>1, <2>2, <4>2, HarmLater
    <3> QED
      BY <1>3, <1>5, <1>7, <2>2, <3>1
  <2> QED
    BY <1>2, <2>1, <2>2
<1>8. CASE /\ ~h /\ o = st /\ NextLine(st).slot = slot /\ NextLine(st).count # 1
           /\ GroupGrows(groups[k], groups'[k], NextLine(st), NextSentence(st, h))
  <2>1. CASE b \in 1 .. position[o]
    <3>1. b < p /\ p < c
      BY <1>1, <1>2, <1>3, <1>4, <1>8, <2>1
    <3>2. SameText(st, b, p)
      BY <1>2, <1>3, <1>4, <1>6, <1>8, <3>1, NothingBetween
    <3>3. SameText(st, p, c)
      BY <1>8, <3>2 DEF SameText
    <3>4. Airings[st][b].number < Airings[st][p].number
      BY <1>2, <1>3, <1>8, <3>1, <3>2, InOrder
    <3>5. Airings[st][p].number < Airings[st][c].number
      BY <1>2, <1>3, <1>8, <3>1, <3>3, InOrder
    <3>6. Airings[st][p].number \in Nat
      BY <1>3, LineFacts
    <3> QED
      BY <1>5, <1>8, <3>4, <3>5, <3>6
  <2>2. CASE o = st /\ b = p
    <3>1. /\ NextLine(st).number = Airings[o][b].number /\ NextLine(st).count = Airings[o][b].count
          /\ NextSentence(st, h).text = Airings[o][b].text
          /\ NextLine(st).text = Airings[o][b].text
      BY <1>3, <2>2
    <3>2. /\ Len(<<NextSentence(st, h)>>) = 1
          /\ <<NextSentence(st, h)>>[1] = NextSentence(st, h)
      BY <1>6, GrownFacts
    <3>3. CASE NextLine(st).number = 1
      <4>1. g2 = <<NextSentence(st, h)>>
        BY <1>8, <3>3 DEF GroupGrows
      <4> QED
        BY <3>1, <3>2, <3>3, <4>1
    <3>4. CASE NextLine(st).number # 1
      <4>1. /\ NextLine(st).number = Len(g) + 1 /\ Len(g) \in Nat
            /\ \A i \in 1 .. Len(g) : g[i].text = NextLine(st).text
        BY <1>1, <1>8, <2>2, <3>4, WholeBefore
      <4>2. g2 = Append(g, NextSentence(st, h))
        BY <1>5, <1>8, <3>1, <3>4, <4>1 DEF GroupGrows
      <4>3. /\ Len(g2) = Len(g) + 1 /\ g2[Len(g) + 1] = NextSentence(st, h)
            /\ \A i \in 1 .. Len(g) : g2[i] = g[i]
        BY <1>6, <4>2, GrownFacts
      <4> HIDE DEF g
      <4> QED
        BY <3>1, <4>1, <4>3
    <3> QED
      BY <3>3, <3>4
  <2> QED
    BY <1>2, <2>1, <2>2
<1> QED
  BY <1>6, <1>7, <1>8

------------------------------------------------------------------------------
(* Two messages are mixed only after two mishaps.                           *)

LEMMA StitchCost ==
    ASSUME StageTypeOK, GroupsHeard, NextIsDue, HeadClears, StitchedGroups,
           NEW st \in Stations, NEW h \in BOOLEAN, Arrives(st, h),
           NextLine(st).slot \in Slots, NextLine(st).number # 1,
           NextLine(st).number = Len(groups[KeyOfNext(st, h)]) + 1,
           IsStitched(Grown(st, h))
    PROVE  TwoMishaps'
<1> DEFINE s == NextSentence(st, h)
           slot == NextLine(st).slot
<1>1. PICK k : k = KeyOfNext(st, h)
  OBVIOUS
<1>2. PICK p : p = position[st] + 1
  OBVIOUS
<1>3. k \in StageKeys /\ k = <<IF h THEN NoSource ELSE st, slot>>
  BY <1>1 DEF KeyOfNext, StageKeys
<1> DEFINE g == groups[k]
<1>4. /\ p \in 1 .. Len(Airings[st]) /\ s.text = Airings[st][p].text
      /\ NextLine(st) = Airings[st][p] /\ p \in Nat
      /\ p \in position[st] + 1 .. Len(Airings[st]) /\ position[st] \in Nat
  BY <1>2, NextLineFacts, TransmittedLater
<1>5. /\ Len(g) \in Nat /\ Len(Append(g, s)) = Len(g) + 1 /\ Append(g, s)[Len(g) + 1] = s
      /\ \A i \in 1 .. Len(g) : Append(g, s)[i] = g[i]
  BY <1>3, GrownFacts
<1>6. NextLine(st).number = Len(g) + 1 /\ Len(g) >= 1
  BY <1>1, <1>5
<1>7. (TwoMishaps => TwoMishaps') /\ mishaps \subseteq mishaps'
      /\ (<<st, p>> \in mishaps' <=> h)
  BY <1>2, HarmLater
<1>8. CASE IsStitched(g)
  BY <1>3, <1>7, <1>8 DEF StitchedGroups
<1>9. CASE ~IsStitched(g)
  <2>1. \A i \in 1 .. Len(g) : g[i].text # s.text
    <3>1. PICK r : r = Append(g, s)
      OBVIOUS
    <3>2. \E i, j \in 1 .. Len(r) : r[i].text # r[j].text
      BY <1>1, <3>1 DEF IsStitched, Grown
    <3>3. \A i, j \in 1 .. Len(g) : g[i].text = g[j].text
      BY <1>9 DEF IsStitched
    <3>4. /\ Len(r) = Len(g) + 1 /\ r[Len(g) + 1] = s
          /\ \A i \in 1 .. Len(g) : r[i] = g[i]
      BY <1>5, <3>1
    <3> HIDE DEF g, s
    <3>5. \A i \in 1 .. Len(r) : i \in 1 .. Len(g) \/ i = Len(g) + 1
      BY <1>5, <3>4
    <3> QED
      BY <3>2, <3>3, <3>4, <3>5
  <2>2. CASE h
    <3>1. 1 \in 1 .. Len(g) /\ k[1] = NoSource
      BY <1>3, <1>5, <1>6, <2>2
    <3>2. HeardAs(g[1], k)
      BY <1>3, <3>1 DEF GroupsHeard
    <3>3. PICK o \in Stations : \E l \in 1 .. position[o] :
             /\ g[1] = SentenceOf(Airings[o][l], k[1])
             /\ k[1] = IF Harmed(o, l) THEN NoSource ELSE o
      BY <3>2 DEF HeardAs
    <3>4. PICK l \in 1 .. position[o] :
             /\ g[1] = SentenceOf(Airings[o][l], k[1])
             /\ k[1] = IF Harmed(o, l) THEN NoSource ELSE o
      BY <3>3
    <3>5. <<o, l>> \in mishaps /\ g[1].text = Airings[o][l].text
      BY <3>1, <3>4, StageAssumption DEF Harmed, SentenceOf
    <3>6. <<o, l>> # <<st, p>>
      BY <1>4, <2>1, <3>1, <3>5
    <3> QED
      BY <1>7, <2>2, <3>5, <3>6 DEF TwoMishaps
  <2>3. CASE ~h
    <3>1. PICK n : n = Len(g)
      OBVIOUS
    <3>2. k = <<st, slot>> /\ slot \in Slots /\ n \in 1 .. Len(g) /\ n \in Nat
      BY <1>3, <1>5, <1>6, <2>3, <3>1
    <3>3. /\ g[n].count # n
          /\ \E l \in 1 .. position[st] :
                /\ l \in 1 .. Len(Airings[st])
                /\ Airings[st][l].text = g[n].text /\ Airings[st][l].number = n
                /\ Airings[st][l].count = g[n].count /\ Airings[st][l].slot = slot
      <4>1. n \in 1 .. Len(groups[<<st, slot>>])
        BY <3>2
      <4> HIDE DEF slot
      <4>2. LET e == groups[<<st, slot>>][n] IN
            /\ e.number = n /\ e.count # n
            /\ \E l \in 1 .. position[st] :
                  /\ l \in 1 .. Len(Airings[st]) /\ ~Harmed(st, l)
                  /\ Airings[st][l].text = e.text /\ Airings[st][l].number = n
                  /\ Airings[st][l].count = e.count /\ Airings[st][l].slot = slot
        BY <3>2, <4>1, GroupElement
      <4>3. g[n] = groups[<<st, slot>>][n]
        BY <3>2
      <4> HIDE DEF g
      <4> QED
        BY <4>2, <4>3
    <3>4. PICK l \in 1 .. position[st] :
             /\ l \in 1 .. Len(Airings[st])
             /\ Airings[st][l].text = g[n].text /\ Airings[st][l].number = n
             /\ Airings[st][l].count # n /\ Airings[st][l].slot = slot
      BY <3>3
    <3>5. PICK a \in 1 .. Len(Airings[st]) : SameText(st, l, a) /\ Airings[st][a].number = n + 1
      <4>1. /\ Airings[st][l].count \in Nat /\ Airings[st][l].number <= Airings[st][l].count
            /\ \A m \in 1 .. Airings[st][l].count :
                  \E j \in 1 .. Len(Airings[st]) : SameText(st, l, j) /\ Airings[st][j].number = m
        BY <3>4, LineFacts
      <4>2. n + 1 \in 1 .. Airings[st][l].count
        BY <3>2, <3>4, <4>1
      <4> QED
        BY <4>1, <4>2
    <3>6. Airings[st][p].count # 1
      <4>1. Airings[st][p].count \in Nat /\ Airings[st][p].number <= Airings[st][p].count
        BY <1>4, LineFacts
      <4> QED
        BY <1>4, <1>5, <1>6, <4>1
    <3>7. Airings[st][l].text # Airings[st][p].text
      BY <1>4, <2>1, <3>2, <3>4
    <3>8. a \in 1 .. position[st]
      <4>1. l < a
        BY <3>2, <3>4, <3>5, InOrder
      <4>2. a # p
        BY <3>5, <3>7 DEF SameText
      <4>3. ~(p < a)
        <5> SUFFICES ASSUME p < a PROVE FALSE
          OBVIOUS
        <5>1. l < p /\ Airings[st][p].slot = slot /\ slot # NoSlot
          BY <1>2, <1>4, <3>2, StageAssumption
        <5>2. SameText(st, l, p)
          BY <1>4, <3>4, <3>5, <3>6, <5>1, NothingBetween
        <5> QED
          BY <3>7, <5>2 DEF SameText
      <4> QED
        BY <1>2, <1>4, <4>2, <4>3
    <3>9. Harmed(st, a)
      <4>1. /\ Len(groups[<<st, slot>>]) # 0
            /\ Airings[st][a].text = groups[<<st, slot>>][Len(groups[<<st, slot>>])].text
            /\ Airings[st][a].number = Len(groups[<<st, slot>>]) + 1
        BY <1>6, <3>1, <3>2, <3>4, <3>5 DEF SameText
      <4> QED
        BY <3>2, <3>8, <4>1 DEF NextIsDue
    <3>10. PICK f \in 1 .. Len(Airings[st]) : SameText(st, p, f) /\ Airings[st][f].number = 1
      <4>1. /\ Airings[st][p].count \in Nat /\ Airings[st][p].number <= Airings[st][p].count
            /\ Airings[st][p].number \in Nat /\ Airings[st][p].number >= 1
            /\ \A m \in 1 .. Airings[st][p].count :
                  \E j \in 1 .. Len(Airings[st]) : SameText(st, p, j) /\ Airings[st][j].number = m
        BY <1>4, LineFacts
      <4>2. 1 \in 1 .. Airings[st][p].count
        BY <4>1
      <4> QED
        BY <4>1, <4>2
    <3>11. SameText(st, f, p)
      BY <3>10 DEF SameText
    <3>12. f \in 1 .. position[st] /\ Airings[st][f].slot = slot
      <4>1. Airings[st][f].number < Airings[st][p].number
        BY <1>4, <1>5, <1>6, <3>10
      <4>2. f < p /\ Airings[st][f].slot = Airings[st][p].slot
        BY <1>4, <3>11, <4>1, InOrder
      <4> QED
        BY <1>2, <1>4, <4>2
    <3>13. Harmed(st, f)
      <4> SUFFICES ASSUME ~Harmed(st, f) PROVE FALSE
        OBVIOUS
      <4>1. \A i \in 1 .. Len(groups[<<st, slot>>]) :
               groups[<<st, slot>>][i].text = Airings[st][f].text
        BY <1>4, <3>2, <3>10, <3>11, <3>12 DEF HeadClears
      <4>2. g[n].text = Airings[st][f].text
        BY <3>2, <4>1
      <4> QED
        BY <3>4, <3>7, <3>11, <4>2 DEF SameText
    <3>14. <<st, a>> # <<st, f>>
      BY <3>5, <3>7, <3>11 DEF SameText
    <3> QED
      BY <1>7, <3>9, <3>13, <3>14 DEF TwoMishaps, Harmed
  <2> QED
    BY <2>2, <2>3
<1> QED
  BY <1>8, <1>9

LEMMA StitchedGroupsLater ==
    ASSUME StageTypeOK, GroupsHeard, NextIsDue, HeadClears, StitchedGroups,
           NEW st \in Stations, NEW h \in BOOLEAN, Arrives(st, h), Takes(st, h)
    PROVE  StitchedGroups'
<1> SUFFICES ASSUME NEW k \in StageKeys, NEW g2, g2 = groups'[k], IsStitched(g2)
             PROVE  TwoMishaps'
  BY DEF StitchedGroups, IsStitched
<1>1. CASE g2 = groups[k]
  BY <1>1, HarmLater DEF StitchedGroups
<1>2. CASE /\ k = KeyOfNext(st, h) /\ NextLine(st).count # 1 /\ NextLine(st).slot \in Slots
           /\ GroupGrows(groups[k], g2, NextLine(st), NextSentence(st, h))
  <2>1. CASE g2 = <<>>
    BY <2>1 DEF IsStitched
  <2>2. CASE g2 = <<NextSentence(st, h)>>
    <3>1. Len(g2) = 1
      BY <2>2, GrownFacts
    <3> QED
      BY <3>1 DEF IsStitched
  <2>3. CASE /\ g2 = Append(groups[k], NextSentence(st, h)) /\ NextLine(st).number # 1
             /\ NextLine(st).number = Len(groups[k]) + 1
    <3>1. IsStitched(Grown(st, h))
      BY <1>2, <2>3 DEF Grown
    <3> QED
      BY <1>2, <2>3, <3>1, StitchCost
  <2> QED
    BY <1>2, <2>1, <2>2, <2>3 DEF GroupGrows
<1> QED
  BY <1>1, <1>2, GroupLater

------------------------------------------------------------------------------
(* What is pushed.                                                          *)

\* The next line ends the message r.
Ends(st, h, r) ==
    \/ NextLine(st).count = 1 /\ r = <<NextSentence(st, h)>>
    \/ /\ NextLine(st).slot \in Slots /\ NextLine(st).number # 1
       /\ NextLine(st).number = Len(groups[KeyOfNext(st, h)]) + 1
       /\ r = Grown(st, h)

LEMMA MessagesLater ==
    ASSUME StageTypeOK, NEW st \in Stations, NEW h \in BOOLEAN, Arrives(st, h), Takes(st, h)
    PROVE  \/ messages' = messages
           \/ \E r \in Seq(StageSentences) :
                 /\ Ends(st, h, r)
                 /\ Len(r) \in Nat /\ Len(r) >= 1 /\ r[Len(r)] = NextSentence(st, h)
                 /\ Len(messages') = Len(messages) + 1 /\ messages'[Len(messages) + 1] = r
                 /\ \A n \in 1 .. Len(messages) : messages'[n] = messages[n]
                 /\ Len(messages) \in Nat
<1>1. messages \in Seq(Seq(StageSentences))
  BY DEF StageTypeOK
<1>2. ASSUME NEW r \in Seq(StageSentences), messages' = Append(messages, r)
      PROVE  /\ Len(messages') = Len(messages) + 1 /\ messages'[Len(messages) + 1] = r
             /\ \A n \in 1 .. Len(messages) : messages'[n] = messages[n]
             /\ Len(messages) \in Nat
  BY <1>1, <1>2, AppendElements
<1>3. NextSentence(st, h) \in StageSentences
  BY NextLineFacts
<1>4. CASE TakesSingle(st, h)
  <2>1. PICK r : r = <<NextSentence(st, h)>>
    OBVIOUS
  <2>2. /\ r \in Seq(StageSentences) /\ Len(r) \in Nat /\ Len(r) >= 1
        /\ r[Len(r)] = NextSentence(st, h)
    <3>1. r \in Seq(StageSentences) /\ Len(r) = 1 /\ r[1] = NextSentence(st, h)
      BY <1>3, <2>1
    <3> QED
      BY <3>1
  <2>3. Ends(st, h, r)
    BY <1>4, <2>1 DEF TakesSingle, Ends
  <2>4. messages' = Append(messages, r) \/ messages' = messages
    BY <1>4, <2>1 DEF TakesSingle
  <2> QED
    BY <1>2, <2>2, <2>3, <2>4
<1>5. CASE TakesLast(st, h)
  <2>1. PICK r : r = Grown(st, h)
    OBVIOUS
  <2>2. /\ NextLine(st).slot \in Slots /\ NextLine(st).number # 1
        /\ NextLine(st).number = Len(groups[KeyOfNext(st, h)]) + 1
    BY <1>5 DEF TakesLast, Regroups
  <2>3. KeyOfNext(st, h) \in StageKeys
    BY <2>2 DEF KeyOfNext, StageKeys
  <2>4. r \in Seq(StageSentences) /\ Len(r) \in Nat /\ Len(r) >= 1
        /\ r[Len(r)] = NextSentence(st, h)
    <3>1. PICK k \in StageKeys : k = KeyOfNext(st, h)
      BY <2>3
    <3>2. PICK g : g = groups[k]
      OBVIOUS
    <3>3. r = Append(g, NextSentence(st, h)) /\ g \in Seq(StageSentences)
      BY <2>1, <3>1, <3>2 DEF Grown, StageTypeOK
    <3>4. r \in Seq(StageSentences) /\ Len(g) \in Nat /\ Len(r) = Len(g) + 1
          /\ r[Len(g) + 1] = NextSentence(st, h)
      BY <1>3, <3>3, AppendElements
    <3> QED
      BY <3>4
  <2>5. Ends(st, h, r)
    BY <2>1, <2>2 DEF Ends
  <2>6. messages' = Append(messages, r) \/ messages' = messages
    BY <1>5, <2>1 DEF TakesLast
  <2> QED
    BY <1>2, <2>4, <2>5, <2>6
<1>6. CASE UNCHANGED messages
  BY <1>6
<1> QED
  BY <1>4, <1>5, <1>6 DEF Takes, Ignores, TakesFirst, TakesOutOfSequence, TakesMiddle

LEMMA StitchedMessagesLater ==
    ASSUME StageTypeOK, GroupsHeard, NextIsDue, HeadClears, StitchedGroups, StitchedMessages,
           NEW st \in Stations, NEW h \in BOOLEAN, Arrives(st, h), Takes(st, h)
    PROVE  StitchedMessages'
<1> SUFFICES ASSUME NEW n \in 1 .. Len(messages'), NEW r, r = messages'[n], IsStitched(r)
             PROVE  TwoMishaps'
  BY DEF StitchedMessages, IsStitched
<1>1. CASE n \in 1 .. Len(messages) /\ r = messages[n]
  BY <1>1, HarmLater DEF StitchedMessages
<1>2. CASE Ends(st, h, r)
  <2>1. CASE r = <<NextSentence(st, h)>>
    <3>1. Len(r) = 1
      BY <2>1
    <3> QED
      BY <3>1 DEF IsStitched
  <2>2. CASE /\ NextLine(st).slot \in Slots /\ NextLine(st).number # 1
             /\ NextLine(st).number = Len(groups[KeyOfNext(st, h)]) + 1
             /\ r = Grown(st, h)
    BY <2>2, StitchCost
  <2> QED
    BY <1>2, <2>1, <2>2 DEF Ends
<1> QED
  BY <1>1, <1>2, MessagesLater

LEMMA EndedByALineLater ==
    ASSUME StageTypeOK, EndedByALine,
           NEW st \in Stations, NEW h \in BOOLEAN, Arrives(st, h), Takes(st, h)
    PROVE  EndedByALine'
<1>1. PICK p : p = position[st] + 1
  OBVIOUS
<1>2. /\ p \in 1 .. Len(Airings[st]) /\ p \in 1 .. position'[st] /\ p \in Nat
      /\ position[st] \in Nat
      /\ SameFragment(NextSentence(st, h), Airings[st][p])
  BY <1>1, NextLineFacts, TransmittedLater, HarmLater DEF SameFragment
<1>3. \A o \in Stations : \A i \in 1 .. position[o] :
        i \in 1 .. position'[o] /\ i \in 1 .. Len(Airings[o])
  BY TransmittedLater
<1>4. CASE messages' = messages
  <2>1. \A n \in 1 .. Len(messages) :
          \E o \in Stations : \E i \in 1 .. position'[o] :
              SameFragment(LastOf(messages[n]), Airings[o][i])
    BY <1>3 DEF EndedByALine
  <2> QED
    BY <1>4, <2>1 DEF EndedByALine, LastOf, SameFragment
<1>5. ASSUME NEW r \in Seq(StageSentences),
             LastOf(r) = NextSentence(st, h), Len(messages) \in Nat,
             Len(messages') = Len(messages) + 1, messages'[Len(messages) + 1] = r,
             \A n \in 1 .. Len(messages) : messages'[n] = messages[n]
      PROVE  EndedByALine'
  <2>1. PICK m : m = Len(messages) + 1
    OBVIOUS
  <2>2. \A n \in 1 .. Len(messages') : n \in 1 .. Len(messages) \/ n = m
    BY <1>5, <2>1
  <2>3. ASSUME NEW n \in 1 .. Len(messages)
        PROVE  ~SameFragment(LastOf(messages'[n]), LastOf(messages'[m]))
    <3>1. PICK o \in Stations : \E i \in 1 .. position[o] :
            SameFragment(LastOf(messages[n]), Airings[o][i])
      BY DEF EndedByALine
    <3>2. PICK i \in 1 .. position[o] : SameFragment(LastOf(messages[n]), Airings[o][i])
      BY <3>1
    <3> SUFFICES ASSUME SameFragment(LastOf(messages[n]), LastOf(r)) PROVE FALSE
      BY <1>5, <2>1
    <3>3. Airings[o][i].text = Airings[st][p].text /\ Airings[o][i].number = Airings[st][p].number
      BY <1>2, <1>5, <3>2 DEF SameFragment
    <3>4. o = st
      BY <1>2, <1>3, <3>2, <3>3, OwnTexts
    <3>5. i = p
      BY <1>2, <1>3, <3>2, <3>3, <3>4, InOrder DEF SameText
    <3> QED
      BY <1>1, <1>2, <3>2, <3>4, <3>5
  <2>4. ASSUME NEW n \in 1 .. Len(messages')
        PROVE  \E o \in Stations : \E i \in 1 .. position'[o] :
                   SameFragment(LastOf(messages'[n]), Airings[o][i])
    <3>1. CASE n \in 1 .. Len(messages)
      <4>1. PICK o \in Stations : \E i \in 1 .. position[o] :
              SameFragment(LastOf(messages[n]), Airings[o][i])
        BY <3>1 DEF EndedByALine
      <4> QED
        BY <1>3, <1>5, <3>1, <4>1
    <3>2. CASE n = m
      BY <1>2, <1>5, <2>1, <3>2
    <3> QED
      BY <2>2, <3>1, <3>2
  <2>5. ASSUME NEW n \in 1 .. Len(messages'), NEW q \in 1 .. Len(messages'),
               SameFragment(LastOf(messages'[n]), LastOf(messages'[q]))
        PROVE  n = q
    <3>1. SameFragment(LastOf(messages'[q]), LastOf(messages'[n]))
      BY <2>5 DEF SameFragment
    <3>2. CASE n \in 1 .. Len(messages) /\ q \in 1 .. Len(messages)
      BY <1>5, <2>5, <3>2 DEF EndedByALine
    <3> QED
      BY <2>2, <2>3, <2>5, <3>1, <3>2
  <2> QED
    BY <2>4, <2>5 DEF EndedByALine, LastOf, SameFragment
<1> QED
  BY <1>4, <1>5, MessagesLater DEF LastOf

LEMMA DeliveredLater ==
    ASSUME StageTypeOK, GroupsHeard, WholeSoFar, Delivered,
           NEW st \in Stations, NEW h \in BOOLEAN, Arrives(st, h), Takes(st, h)
    PROVE  Delivered'
<1> SUFFICES ASSUME NEW o \in Stations, NEW i \in 1 .. position'[o],
                    Airings[o][i].number = Airings[o][i].count,
                    Airings[o][i].text \in Decodable,
                    Airings[o][i].slot = NoSlot => Airings[o][i].count = 1,
                    \A j \in 1 .. position'[o] : SameText(o, i, j) => <<o, j>> \notin mishaps'
             PROVE  \E n \in 1 .. Len(messages') : IsWhole(messages'[n], o, i)
  BY DEF Delivered, Harmed, IsWhole
<1>1. PICK p : p = position[st] + 1
  OBVIOUS
<1>2. /\ i \in 1 .. Len(Airings[o])
      /\ i \in 1 .. position[o] \/ (o = st /\ i = p)
  BY <1>1, TransmittedLater
<1>3. CASE i \in 1 .. position[o]
  <2>1. \A j \in 1 .. position[o] : SameText(o, i, j) => ~Harmed(o, j)
    <3> SUFFICES ASSUME NEW j \in 1 .. position[o], SameText(o, i, j) PROVE ~Harmed(o, j)
      OBVIOUS
    <3>1. j \in 1 .. position'[o]
      BY TransmittedLater
    <3>2. <<o, j>> \notin mishaps'
      BY <3>1
    <3> QED
      BY <3>2, HarmLater DEF Harmed
  <2>2. PICK n \in 1 .. Len(messages) : IsWhole(messages[n], o, i)
    BY <1>3, <2>1 DEF Delivered
  <2>3. n \in 1 .. Len(messages') /\ messages'[n] = messages[n]
    BY MessagesLater
  <2> QED
    BY <2>2, <2>3
<1>4. CASE o = st /\ i = p
  <2>1. ~h
    <3>1. SameText(o, i, i)
      BY DEF SameText
    <3>2. <<o, i>> \notin mishaps'
      BY <3>1
    <3> QED
      BY <1>1, <1>4, <3>2, HarmLater
  <2>2. /\ p \in 1 .. Len(Airings[st]) /\ NextLine(st) = Airings[st][p]
        /\ NextSentence(st, h) \in StageSentences
        /\ NextSentence(st, h).text = Airings[st][p].text
        /\ NextSentence(st, h).number = Airings[st][p].number
        /\ NextLine(st).number \in Nat /\ NextLine(st).number >= 1
    BY <1>1, NextLineFacts
  <2>3. NextLine(st).number = NextLine(st).count /\ NextLine(st).text \in Decodable
        /\ (NextLine(st).slot = NoSlot => NextLine(st).count = 1)
    BY <1>4, <2>2
  <2>4. messages \in Seq(Seq(StageSentences))
    BY DEF StageTypeOK
  <2>5. ASSUME NEW r \in Seq(StageSentences), messages' = Append(messages, r), IsWhole(r, st, p)
        PROVE  \E n \in 1 .. Len(messages') : IsWhole(messages'[n], o, i)
    <3>1. /\ Len(messages') = Len(messages) + 1 /\ messages'[Len(messages) + 1] = r
          /\ Len(messages) \in Nat
      BY <2>4, <2>5, AppendElements
    <3>2. Len(messages) + 1 \in 1 .. Len(messages')
      BY <3>1
    <3> QED
      BY <1>4, <2>5, <3>1, <3>2
  <2>6. CASE NextLine(st).count = 1
    <3>1. TakesSingle(st, h)
      BY <2>1, <2>3, <2>6 DEF Takes, Ignores, TakesFirst, TakesOutOfSequence, TakesMiddle,
         TakesLast, Regroups
    <3>2. PICK r : r = <<NextSentence(st, h)>>
      OBVIOUS
    <3>3. r \in Seq(StageSentences) /\ Len(r) = 1 /\ r[1] = NextSentence(st, h)
      BY <2>2, <3>2
    <3>4. messages' = Append(messages, r)
      BY <2>3, <3>1, <3>2 DEF TakesSingle
    <3>5. IsWhole(r, st, p)
      BY <2>2, <2>3, <2>6, <3>3 DEF IsWhole
    <3> QED
      BY <2>5, <3>3, <3>4, <3>5
  <2>7. CASE NextLine(st).count # 1
    <3>1. NextLine(st).slot \in Slots
      BY <2>2, <2>3, <2>7, LineFacts
    <3>2. PICK k \in StageKeys : k = <<st, NextLine(st).slot>>
      BY <3>1 DEF StageKeys
    <3>3. KeyOfNext(st, h) = k
      BY <2>1, <3>2 DEF KeyOfNext
    <3>4. PICK g : g = groups[k]
      OBVIOUS
    <3>5. NextLine(st).number # 1
      BY <2>3, <2>7
    <3>6. \A j \in 1 .. position'[st] : SameText(st, p, j) => <<st, j>> \notin mishaps'
      BY <1>4
    <3>7. /\ NextLine(st).number = Len(g) + 1 /\ Len(g) \in Nat /\ Len(g) >= 1
          /\ \A j \in 1 .. Len(g) : g[j].text = NextLine(st).text
      BY <1>1, <3>1, <3>2, <3>4, <3>5, <3>6, WholeBefore
    <3>8. TakesLast(st, h)
      BY <2>1, <2>3, <2>7, <3>1, <3>3, <3>4, <3>5, <3>7, StageAssumption DEF Takes, Ignores,
         TakesSingle, TakesFirst, TakesOutOfSequence, TakesMiddle
    <3>9. PICK r : r = Grown(st, h)
      OBVIOUS
    <3>10. r = Append(g, NextSentence(st, h)) /\ g \in Seq(StageSentences)
      BY <3>3, <3>4, <3>9 DEF Grown, StageTypeOK
    <3>11. /\ r \in Seq(StageSentences) /\ Len(r) = Len(g) + 1
           /\ r[Len(g) + 1] = NextSentence(st, h)
           /\ \A j \in 1 .. Len(g) : r[j] = g[j]
      BY <2>2, <3>10, AppendElements
    <3>12. r[1].text \in Decodable
      BY <2>3, <3>7, <3>11
    <3>13. messages' = Append(messages, r)
      BY <3>8, <3>9, <3>12 DEF TakesLast
    <3>14. \A j \in 1 .. Len(g) : g[j].number = j
      BY <3>4 DEF GroupsHeard
    <3>15. IsWhole(r, st, p)
      <4>1. \A j \in 1 .. Len(r) : j \in 1 .. Len(g) \/ j = Len(g) + 1
        BY <3>7, <3>11
      <4> QED
        BY <2>2, <2>3, <3>7, <3>11, <3>14, <4>1 DEF IsWhole
    <3> QED
      BY <2>5, <3>11, <3>13, <3>15
  <2> QED
    BY <2>6, <2>7
<1> QED
  BY <1>2, <1>3, <1>4

------------------------------------------------------------------------------
(* The invariant, and what it says of the messages.                         *)

LEMMA StageInvInit == StageInit => StageInv
<1> SUFFICES ASSUME StageInit PROVE StageInv
  OBVIOUS
<1>1. /\ groups = [k \in StageKeys |-> <<>>] /\ messages = <<>> /\ mishaps = {}
      /\ position = [st \in Stations |-> 0]
  BY DEF StageInit, Assembler!Init
<1>2. StageTypeOK
  <2>1. groups \in [StageKeys -> Seq(StageSentences)] /\ messages \in Seq(Seq(StageSentences))
    BY <1>1, EmptySeq
  <2>2. \A st \in Stations : Len(Airings[st]) \in Nat
    BY TransmissionAssumption
  <2>3. position \in [Stations -> Nat] /\ \A st \in Stations : position[st] <= Len(Airings[st])
    BY <1>1, <2>2
  <2>4. IsFiniteSet(mishaps) /\ \A st \in Stations : \A i \in Nat : ~Harmed(st, i)
    BY <1>1, FS_EmptySet DEF Harmed
  <2> QED
    BY <2>1, <2>3, <2>4 DEF StageTypeOK
<1>3. \A k \in StageKeys : groups[k] = <<>> /\ Len(groups[k]) = 0
  BY <1>1
<1>4. \A st \in Stations : \A i \in 1 .. position[st] : FALSE
  BY <1>1
<1>5. GroupsHeard /\ StitchedGroups
  BY <1>3 DEF GroupsHeard, StitchedGroups, IsStitched
<1>6. NextIsDue /\ HeadClears /\ WholeSoFar /\ Delivered
  BY <1>4 DEF NextIsDue, HeadClears, WholeSoFar, Delivered
<1>7. StitchedMessages /\ EndedByALine
  BY <1>1 DEF StitchedMessages, EndedByALine
<1> QED
  BY <1>2, <1>5, <1>6, <1>7 DEF StageInv

LEMMA StageInvNext == StageInv /\ [StageNext]_stageVars => StageInv'
<1> SUFFICES ASSUME StageInv, [StageNext]_stageVars PROVE StageInv'
  OBVIOUS
<1>1. CASE StageNext
  <2>1. PICK st \in Stations, h \in BOOLEAN : Arrives(st, h) /\ Takes(st, h)
    BY <1>1, StageSteps DEF StageInv
  <2>2. StageTypeOK'
    BY <2>1, TypeLater DEF StageInv
  <2>3. GroupsHeard' /\ NextIsDue' /\ HeadClears' /\ WholeSoFar'
    BY <2>1, GroupsHeardLater, NextIsDueLater, HeadClearsLater, WholeSoFarLater DEF StageInv
  <2>4. StitchedGroups' /\ StitchedMessages'
    BY <2>1, StitchedGroupsLater, StitchedMessagesLater DEF StageInv
  <2>5. EndedByALine' /\ Delivered'
    BY <2>1, EndedByALineLater, DeliveredLater DEF StageInv
  <2> QED
    BY <2>2, <2>3, <2>4, <2>5 DEF StageInv
<1>2. CASE UNCHANGED stageVars
  <2>1. /\ groups' = groups /\ position' = position /\ mishaps' = mishaps
        /\ messages' = messages
    BY <1>2 DEF stageVars
  <2>2. StageTypeOK' /\ StitchedGroups' /\ StitchedMessages'
    BY <2>1 DEF StageInv, StageTypeOK, StitchedGroups, StitchedMessages, IsStitched,
       TwoMishaps, Harmed
  <2>3. GroupsHeard'
    BY <2>1 DEF StageInv, GroupsHeard, HeardAs, Harmed
  <2>4. NextIsDue' /\ HeadClears' /\ WholeSoFar'
    BY <2>1 DEF StageInv, NextIsDue, HeadClears, WholeSoFar, Harmed
  <2>5. EndedByALine' /\ Delivered'
    BY <2>1 DEF StageInv, EndedByALine, Delivered, IsWhole, SameFragment, LastOf, Harmed
  <2> QED
    BY <2>2, <2>3, <2>4, <2>5 DEF StageInv
<1> QED
  BY <1>1, <1>2

\* The invariant of the stage.
THEOREM StageInvariant == StageSpec => []StageInv
BY StageInvInit, StageInvNext, PTL DEF StageSpec

\* It takes two mishaps to make add() mix two messages: whatever the stations and
\* their slots, one lost, damaged or unlabelled line never produces a message
\* nobody sent.
THEOREM OneMishapNeverStitches == StageSpec => []StitchNeedsTwoMishaps
<1>1. StageInv => StitchNeedsTwoMishaps
  <2> SUFFICES ASSUME StageInv, Cardinality(mishaps) <= 1,
                      NEW n \in 1 .. Len(messages), IsStitched(messages[n])
               PROVE  FALSE
    BY DEF StitchNeedsTwoMishaps
  <2>1. PICK x \in mishaps, y \in mishaps : x # y
    BY DEF StageInv, StitchedMessages, TwoMishaps
  <2>2. IsFiniteSet({x}) /\ Cardinality({x}) = 1
    BY FS_Singleton
  <2>3. PICK one : one = {x}
    OBVIOUS
  <2>4. y \notin one /\ IsFiniteSet(one) /\ Cardinality(one) = 1
    BY <2>1, <2>2, <2>3
  <2>5. PICK two : two = one \cup {y}
    OBVIOUS
  <2>6. Cardinality(two) = Cardinality(one) + 1
    BY <2>4, <2>5, FS_AddElement
  <2>7. two \in SUBSET mishaps /\ IsFiniteSet(mishaps)
    BY <2>3, <2>5 DEF StageInv, StageTypeOK
  <2>8. Cardinality(two) <= Cardinality(mishaps) /\ Cardinality(mishaps) \in Nat
    BY <2>7, FS_Subset, FS_CardinalityType
  <2> QED
    BY <2>4, <2>6, <2>8
<1> QED
  BY <1>1, StageInvariant, PTL

\* The lines of a message are as many as its count says.
LEMMA CountIsCardinality ==
    ASSUME NEW st \in Stations, NEW i \in 1 .. Len(Airings[st]),
           NEW text, text = Airings[st][i].text
    PROVE  Cardinality(Lines(st, text)) = Airings[st][i].count
<1> DEFINE N == Airings[st][i].count
           L == Lines(st, text)
           f == [j \in L |-> Airings[st][j].number]
<1>1. /\ N \in Nat /\ Len(Airings[st]) \in Nat
      /\ \A n \in 1 .. N :
            \E j \in 1 .. Len(Airings[st]) : SameText(st, i, j) /\ Airings[st][j].number = n
  BY LineFacts
<1>2. \A j \in L : j \in 1 .. Len(Airings[st]) /\ SameText(st, i, j)
  BY DEF Lines, SameText
<1>3. \A j \in L : f[j] \in 1 .. N
  <2> SUFFICES ASSUME NEW j \in L PROVE Airings[st][j].number \in 1 .. N
    OBVIOUS
  <2>1. Airings[st][i].count = Airings[st][j].count
    BY <1>2, InOrder
  <2> QED
    BY <1>2, <2>1, LineFacts
<1>4. \A j, l \in L : f[j] = f[l] => j = l
  <2> SUFFICES ASSUME NEW j \in L, NEW l \in L,
                      Airings[st][j].number = Airings[st][l].number
               PROVE  j = l
    OBVIOUS
  <2>1. SameText(st, j, l)
    BY <1>2 DEF SameText
  <2> QED
    BY <1>2, <2>1, InOrder
<1>5. \A n \in 1 .. N : \E j \in L : f[j] = n
  <2> SUFFICES ASSUME NEW n \in 1 .. N PROVE \E j \in L : Airings[st][j].number = n
    OBVIOUS
  <2>1. PICK j \in 1 .. Len(Airings[st]) : SameText(st, i, j) /\ Airings[st][j].number = n
    BY <1>1
  <2> QED
    BY <2>1 DEF Lines, SameText
<1>6. f \in Bijection(L, 1 .. N)
  <2> HIDE DEF L, N
  <2>1. f \in [L -> 1 .. N]
    BY <1>3
  <2> HIDE DEF f
  <2> QED
    BY <1>4, <1>5, <2>1 DEF Bijection, Injection, Surjection, IsInjective
<1>7. IsFiniteSet(1 .. Len(Airings[st])) /\ L \in SUBSET (1 .. Len(Airings[st]))
  <2>1. 1 \in Int /\ Len(Airings[st]) \in Int
    BY <1>1
  <2>2. IsFiniteSet(1 .. Len(Airings[st]))
    BY <2>1, FS_Interval, Zenon
  <2> QED
    BY <2>2 DEF Lines
<1>8. IsFiniteSet(L)
  BY <1>7, FS_Subset
<1>9. ExistsBijection(L, 1 .. N)
  BY <1>6 DEF ExistsBijection
<1>10. Cardinality(1 .. N) = Cardinality(L)
  BY <1>8, <1>9, FS_Bijection
<1>11. Cardinality(1 .. N) = N
  <2>1. 1 \in Int /\ N \in Int
    BY <1>1
  <2> HIDE DEF N
  <2>2. Cardinality(1 .. N) = IF 1 > N THEN 0 ELSE N - 1 + 1
    BY <2>1, FS_Interval, Zenon
  <2> QED
    BY <1>1, <2>2
<1> QED
  BY <1>10, <1>11

\* A message none of whose lines met with a mishap is pushed exactly once and
\* unaltered, for any stations, any other messages and any mishaps to them.
THEOREM EveryWholeMessage == StageSpec => []WholeMessagesGetThrough
<1>1. StageInv => WholeMessagesGetThrough
  <2> SUFFICES ASSUME StageInv, NEW st \in Stations, NEW text \in Texts(st) \cap Decodable,
                      \A i \in Lines(st, text) : i <= position[st] /\ <<st, i>> \notin mishaps,
                      Assemblable(st, text)
               PROVE  Cardinality(Copies(st, text)) = 1
    BY DEF WholeMessagesGetThrough
  <2>1. PICK i \in 1 .. Len(Airings[st]) : text = Airings[st][i].text
    BY DEF Texts
  <2>2. PICK N : N = Airings[st][i].count
    OBVIOUS
  <2>3. /\ N \in Nat /\ N >= 1
        /\ \A n \in 1 .. N :
              \E j \in 1 .. Len(Airings[st]) : SameText(st, i, j) /\ Airings[st][j].number = n
    <3>1. /\ Airings[st][i].count \in Nat /\ Airings[st][i].number \in Nat
          /\ 1 <= Airings[st][i].number /\ Airings[st][i].number <= Airings[st][i].count
          /\ \A n \in 1 .. Airings[st][i].count :
                \E j \in 1 .. Len(Airings[st]) : SameText(st, i, j) /\ Airings[st][j].number = n
      BY LineFacts
    <3> QED
      BY <2>2, <3>1
  <2>4. PICK j \in 1 .. Len(Airings[st]) : SameText(st, i, j) /\ Airings[st][j].number = N
    BY <2>3
  <2>5. Airings[st][j].count = N /\ Airings[st][j].text = text
    <3>1. Airings[st][i].count = Airings[st][j].count
      BY <2>4, InOrder
    <3> QED
      BY <2>1, <2>2, <2>4, <3>1 DEF SameText
  <2>6. j \in Lines(st, text) /\ \A l \in 1 .. Len(Airings[st]) :
                                     SameText(st, j, l) => l \in Lines(st, text)
    BY <2>5 DEF Lines, SameText
  <2>7. position[st] \in Nat /\ Len(Airings[st]) \in Nat /\ position[st] <= Len(Airings[st])
    BY TransmissionAssumption DEF StageInv, StageTypeOK
  <2>8. j \in 1 .. position[st]
    <3>1. j <= position[st]
      BY <2>6
    <3> QED
      BY <2>7, <3>1
  <2>9. \A l \in 1 .. position[st] : SameText(st, j, l) => ~Harmed(st, l)
    BY <2>6, <2>7 DEF Harmed
  <2>10. Airings[st][j].slot = NoSlot => Airings[st][j].count = 1
    BY <2>6 DEF Assemblable
  <2>11. PICK n \in 1 .. Len(messages) : IsWhole(messages[n], st, j)
    BY <2>4, <2>5, <2>8, <2>9, <2>10 DEF StageInv, Delivered
  <2>12. Cardinality(Lines(st, text)) = N
    BY <2>1, <2>2, CountIsCardinality
  <2>13. n \in Copies(st, text)
    BY <2>5, <2>11, <2>12 DEF Copies, IsMessage, IsWhole
  <2>14. \A m \in Copies(st, text) : m = n
    <3> SUFFICES ASSUME NEW m \in Copies(st, text) PROVE m = n
      OBVIOUS
    <3>1. \A l \in Copies(st, text) :
            l \in 1 .. Len(messages) /\ LastOf(messages[l]).text = text
            /\ LastOf(messages[l]).number = N
      <4> SUFFICES ASSUME NEW l \in Copies(st, text)
                   PROVE  l \in 1 .. Len(messages) /\ LastOf(messages[l]).text = text
                          /\ LastOf(messages[l]).number = N
        OBVIOUS
      <4>1. l \in 1 .. Len(messages) /\ IsMessage(messages[l], st, text)
        BY DEF Copies
      <4>2. Len(messages[l]) = N
        BY <2>12, <4>1 DEF IsMessage
      <4>3. N \in 1 .. Len(messages[l])
        BY <2>3, <4>2
      <4> QED
        BY <4>1, <4>2, <4>3 DEF IsMessage, LastOf
    <3> QED
      BY <2>13, <3>1 DEF StageInv, EndedByALine, SameFragment
  <2>15. Copies(st, text) = {n}
    BY <2>13, <2>14
  <2> QED
    BY <2>15, FS_Singleton
<1> QED
  BY <1>1, StageInvariant, PTL
=============================================================================
