----------------------------- MODULE MCParsing -----------------------------
(* The two parsers of the feed, each on its own, since what one does has  *)
(* no bearing on what the other does.  The framer gets every stream of six *)
(* characters.  The assembler is fed with every order, repetition and      *)
(* omission of the fragments of four messages: two that share a key, one   *)
(* of another key and one without; a single-sentence message; and a        *)
(* fragment whose count is smaller than its number, which no field check   *)
(* keeps out.                                                              *)
EXTENDS AssemblerRuns, LineFramer

CONSTANTS k1, k2

MCKeys == {k1, k2}

Message(text, count, key) ==
    {[text |-> text, number |-> i, count |-> count, key |-> key] : i \in 1 .. count}

MCSentences ==
    Message("a", 3, k1) \cup Message("b", 2, k1) \cup Message("c", 2, k2)
    \cup {[text |-> "d", number |-> 1, count |-> 1, key |-> k1],
          [text |-> "e", number |-> 1, count |-> 2, key |-> NoKey],
          [text |-> "f", number |-> 2, count |-> 1, key |-> k1],
          [text |-> "g", number |-> 3, count |-> 0, key |-> k1]}

VARIABLE parser     \* the one that runs

ParsingInit ==
    /\ HistoryInit /\ FramerInit
    /\ parser \in {"framer", "assembler"}

ParsingNext ==
    \/ parser = "framer" /\ FramerNext /\ UNCHANGED <<historyVars, parser>>
    \/ parser = "assembler" /\ HistoryNext /\ UNCHANGED <<framerVars, parser>>

ParsingSpec == ParsingInit /\ [][ParsingNext]_<<historyVars, framerVars, parser>>
============================================================================
