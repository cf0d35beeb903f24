--------------------------- MODULE AssemblerRuns ---------------------------
(***************************************************************************)
(* What SentenceAssembler::add should return, said without the state it    *)
(* keeps, in terms of what has been heard with the same key.  The module   *)
(* adds that history to SentenceAssembler and compares.                    *)
(***************************************************************************)
EXTENDS SentenceAssembler

CONSTANT MaxAdds  \* bound: how many sentences come in

ASSUME RunsAssumption == MaxAdds \in Nat

VARIABLES
    last,   \* the argument of the last call as <<s>>, <<>> before the first
    heard,  \* the fragments with each key, in the order they came
    adds    \* how many calls there have been

historyVars == <<pending, out, last, heard, adds>>

HistoryTypeOK ==
    /\ TypeOK
    /\ last \in {<<>>} \cup {<<s>> : s \in Sentences}
    /\ heard \in [Keys -> Seq(Sentences)]
    /\ adds \in 0 .. MaxAdds

HistoryInit ==
    /\ Init
    /\ last = <<>>
    /\ heard = [k \in Keys |-> <<>>]
    /\ adds = 0

Hear(s) ==
    /\ adds < MaxAdds
    /\ adds' = adds + 1
    /\ last' = <<s>>
    /\ heard' = IF IsFragment(s) THEN [heard EXCEPT ![s.key] = Append(@, s)] ELSE heard
    /\ Add(s)

HistoryNext == \E s \in Sentences : Hear(s)

HistorySpec == HistoryInit /\ [][HistoryNext]_historyVars

------------------------------------------------------------------------------
\* The last n elements of a sequence.
Latest(seq, n) == SubSeq(seq, Len(seq) - n + 1, Len(seq))

\* The last n fragments heard are numbered 1 to n without a gap, a repetition
\* or a stranger in between, and none of the first `upto` was itself the end of
\* a message.
IsRun(h, n, upto) ==
    /\ n <= Len(h)
    /\ \A i \in 1 .. n : h[Len(h) - n + i].number = i
    /\ \A i \in 2 .. upto : h[Len(h) - n + i].count # i

\* An unfinished message: nothing is missing so far.
OpenRun(h, n) == n >= 1 /\ IsRun(h, n, n)

\* A message whose last fragment has just been heard.
FullRun(h, n) == n >= 2 /\ IsRun(h, n, n - 1) /\ h[Len(h)].count = n

Expected(s) ==
    IF IsSingle(s) THEN <<s>>
    ELSE IF s.key # NoKey /\ FullRun(heard[s.key], s.number)
         THEN Latest(heard[s.key], s.number)
         ELSE <<>>

\* A payload is returned exactly when a message has been heard in one
\* uninterrupted run of its key's fragments, and it is that run: nothing is put
\* together from fragments with a gap, a repetition, a fragment of another key
\* or anything that was already used.
ReturnsExactlyTheRuns == last # <<>> => out = Expected(last[1])

\* pending_ holds, for each key, the unfinished message being heard, and nothing
\* when there is none: no stale group survives to be continued later.
PendingIsTheOpenRun ==
    \A k \in Keys :
        \/ OpenRun(heard[k], Len(pending[k])) /\ pending[k] = Latest(heard[k], Len(pending[k]))
        \/ pending[k] = <<>> /\ \A n \in 1 .. Len(heard[k]) : ~OpenRun(heard[k], n)

\* The fill bits of a payload are those of its last fragment.
FillBitsOfTheLast ==
    Len(out) > 1 => Finals(out) = {Len(out)}
============================================================================
