------------------------- MODULE SentenceAssembler -------------------------
(***************************************************************************)
(* ais::SentenceAssembler (decoder/src/sentence_assembler.cpp): AIVDM      *)
(* sentences go in one at a time, payloads come out.  Long messages are    *)
(* split into numbered fragments; those that share a key -- source         *)
(* station, channel and sequence id -- are collected in pending_ until the *)
(* last one has arrived.                                                   *)
(*                                                                         *)
(* A sentence is [text, number, count, key].  text stands for its armoured *)
(* characters and fill bits; number and count are what Sentence read from  *)
(* fields 2 and 1, which nothing has validated, so they may be any         *)
(* integers.  A payload is the sequence of the sentences it was put        *)
(* together from.                                                          *)
(***************************************************************************)
EXTENDS Integers, Sequences

CONSTANTS
    Keys,       \* values of FragmentKey
    NoKey,      \* the sentence carries no sequence id
    Sentences   \* the sentences that may come in

ASSUME AssemblerAssumption ==
    /\ NoKey \notin Keys
    /\ \A s \in Sentences :
           s.number \in Int /\ s.count \in Int /\ s.key \in Keys \cup {NoKey}

VARIABLES
    pending,  \* pending_: the fragments of each key; <<>> when it has no entry
    out       \* what the last call of add returned; <<>> is nullopt

vars == <<pending, out>>

TypeOK ==
    /\ pending \in [Keys -> Seq(Sentences)]
    /\ out \in Seq(Sentences)

Init ==
    /\ pending = [k \in Keys |-> <<>>]
    /\ out = <<>>

------------------------------------------------------------------------------
IsSingle(s)   == s.count = 1
IsFragment(s) == ~IsSingle(s) /\ s.key # NoKey

\* A message of one sentence is a payload by itself and disturbs no group.
AddSingle(s) ==
    /\ IsSingle(s)
    /\ out' = <<s>>
    /\ UNCHANGED pending

\* A fragment that cannot be told from those of other messages is dropped.
AddWithoutKey(s) ==
    /\ ~IsSingle(s)
    /\ s.key = NoKey
    /\ out' = <<>>
    /\ UNCHANGED pending

\* group of s.key becomes g and the caller gets p.
Settle(s, g, p) ==
    /\ pending' = [pending EXCEPT ![s.key] = g]
    /\ out' = p

\* Mutant: group.clear() is forgotten.
AddFirstKeeping(s) ==
    /\ IsFragment(s) /\ s.number = 1
    /\ Settle(s, Append(pending[s.key], s), <<>>)

\* Fragment 1 starts the group afresh, whatever it held.
AddFirst(s) ==
    /\ IsFragment(s)
    /\ s.number = 1
    /\ Settle(s, <<s>>, <<>>)

Follows(s) == s.number = Len(pending[s.key]) + 1

\* Mutant: a fragment out of sequence is ignored and its group kept.
AddOutOfSequenceKeeping(s) ==
    /\ IsFragment(s) /\ s.number # 1 /\ ~Follows(s)
    /\ Settle(s, pending[s.key], <<>>)

\* A fragment that does not continue its group ends it.
AddOutOfSequence(s) ==
    /\ IsFragment(s)
    /\ s.number # 1
    /\ ~Follows(s)
    /\ Settle(s, <<>>, <<>>)

\* Mutant: the count of the first fragment decides, not that of the latest.
CompletesByFirst(s) == Len(pending[s.key]) + 1 = pending[s.key][1].count

Completes(s) == Len(pending[s.key]) + 1 = s.count

AddMiddle(s) ==
    /\ IsFragment(s)
    /\ s.number # 1
    /\ Follows(s)
    /\ ~Completes(s)
    /\ Settle(s, Append(pending[s.key], s), <<>>)

AddLast(s) ==
    /\ IsFragment(s)
    /\ s.number # 1
    /\ Follows(s)
    /\ Completes(s)
    /\ Settle(s, <<>>, Append(pending[s.key], s))

Add(s) ==
    \/ AddSingle(s) \/ AddWithoutKey(s)
    \/ AddFirst(s) \/ AddOutOfSequence(s) \/ AddMiddle(s) \/ AddLast(s)

\* Sentences come in any order, any number of times.
Next == \E s \in Sentences : Add(s)

Spec == Init /\ [][Next]_vars

\* The fragments of a payload whose fill bits the final loop copies, each over
\* those of the one before: the ones that call themselves the last.
Finals(payload) == {i \in 1 .. Len(payload) : payload[i].number = payload[i].count}
============================================================================
