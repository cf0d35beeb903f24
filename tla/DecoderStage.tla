---------------------------- MODULE DecoderStage ----------------------------
(***************************************************************************)
(* One run of ais::DecoderStage over the lines of the feed                 *)
(* (pipeline/src/decoder_stage.cpp): strip the tag block, check the        *)
(* sentence, assemble, decode, push.  Where AssemblerRuns feeds the        *)
(* assembler anything, here the fragments come from stations that transmit *)
(* them in order, and something may happen to a line on its way.  The      *)
(* queues around the stage are the business of Pipeline.                   *)
(***************************************************************************)
EXTENDS Naturals, Sequences, FiniteSets

CONSTANTS
    Stations,    \* base stations; each one's lines arrive in order
    Slots,       \* (channel, sequence id) pairs
    NoSlot,      \* the sentence has no sequence id
    Airings,     \* [Stations -> Seq([text, number, count, slot])], as transmitted
    Decodable,   \* texts whose payload decode_message has a decoder for
    Mishaps,     \* what may happen to a line
    MaxMishaps   \* bound: to how many lines it happens

MishapKinds == {
    "lost",         \* never received, or discarded with the connection it came on
    "damaged",      \* the checksum is wrong or a field is missing
    "unlabelled",   \* no tag block, or one without an s: field
    "unterminated"  \* a tag block that never ends
}

\* tag_block_source found nothing, and value_or made it the empty string.
NoSource == "no source"

StageKeys == (Stations \cup {NoSource}) \X Slots

ASSUME StageAssumption ==
    /\ NoSource \notin Stations
    /\ NoSlot \notin Slots \cup StageKeys
    /\ Mishaps \subseteq MishapKinds
    /\ MaxMishaps \in Nat
    /\ \A st \in Stations : \A i \in 1 .. Len(Airings[st]) :
           Airings[st][i].slot \in Slots \cup {NoSlot}

SameText(st, i, j) == Airings[st][i].text = Airings[st][j].text

\* What is transmitted is whole messages: all the fragments of each, in order, and
\* none of another message with the same slot in between.
ASSUME TransmissionAssumption ==
    \A st \in Stations :
        /\ Len(Airings[st]) \in Nat
        /\ \A i \in 1 .. Len(Airings[st]) :
              /\ Airings[st][i].count \in Nat /\ Airings[st][i].number \in 1 .. Airings[st][i].count
              /\ \A n \in 1 .. Airings[st][i].count :
                     \E j \in 1 .. Len(Airings[st]) : SameText(st, i, j) /\ Airings[st][j].number = n
              /\ \A other \in Stations \ {st} : \A j \in 1 .. Len(Airings[other]) :
                     Airings[other][j].text # Airings[st][i].text
        /\ \A i, j \in 1 .. Len(Airings[st]) :
              i < j /\ SameText(st, i, j) =>
                  /\ Airings[st][i].count = Airings[st][j].count
                  /\ Airings[st][i].slot = Airings[st][j].slot
                  /\ Airings[st][i].number < Airings[st][j].number
                  /\ \A k \in i .. j :
                        /\ Airings[st][k].slot = Airings[st][i].slot
                        /\ Airings[st][k].slot # NoSlot /\ Airings[st][k].count # 1
                        => SameText(st, i, k)

KeyOf(source, slot) == IF slot = NoSlot THEN NoSlot ELSE <<source, slot>>

\* The sentence Sentence(view) makes of a line, with the key add() builds.
SentenceOf(a, source) ==
    [text |-> a.text, number |-> a.number, count |-> a.count, key |-> KeyOf(source, a.slot)]

StageSentences ==
    UNION {{SentenceOf(Airings[st][i], source) :
                i \in 1 .. Len(Airings[st]), source \in {st, NoSource}} : st \in Stations}

VARIABLES
    groups,    \* assembler_'s groups
    result,    \* assembler_'s last result
    position,  \* how many fragments each station has transmitted
    mishaps,   \* <<station, i>>: something happened to the i-th line
    messages   \* the payloads decoded and pushed to the output queue, in order

stageVars == <<groups, result, position, mishaps, messages>>

Assembler == INSTANCE SentenceAssembler WITH
    Keys <- StageKeys, NoKey <- NoSlot, Sentences <- StageSentences, pending <- groups, out <- result

StageInit ==
    /\ Assembler!Init
    /\ position = [st \in Stations |-> 0]
    /\ mishaps = {}
    /\ messages = <<>>

------------------------------------------------------------------------------
(* A line as it reaches the stage: the fragment a that station st           *)
(* transmitted, and what happened to it, "nothing" or one of Mishaps.       *)

\* strip_tag_block finds the end of the tag block, and is_valid() and
\* is_well_formed() hold of what follows it.
Accepted(mishap) == mishap \notin {"unterminated", "damaged"}

\* tag_block_source(...).value_or("").
SourceOf(st, mishap) == IF mishap = "unlabelled" THEN NoSource ELSE st

\* decode_message returns a message for this payload.  The type is in its first
\* six bits, hence in the first fragment.
Decodes(payload) == payload # <<>> /\ payload[1].text \in Decodable

\* What add() returned is decoded and pushed.
PushDecoded ==
    messages' = IF Decodes(result') THEN Append(messages, result') ELSE messages

Dropped == UNCHANGED <<groups, result, messages>>

\* Mutant: fragments are grouped by channel and sequence id alone.
ProcessSourceless(st, a, mishap) ==
    IF Accepted(mishap)
    THEN Assembler!Add(SentenceOf(a, NoSource)) /\ PushDecoded
    ELSE Dropped

\* The body of the loop in DecoderStage::run.
Process(st, a, mishap) ==
    IF Accepted(mishap)
    THEN Assembler!Add(SentenceOf(a, SourceOf(st, mishap))) /\ PushDecoded
    ELSE Dropped

------------------------------------------------------------------------------
\* Station st has transmitted one more fragment.
Transmit(st) ==
    /\ position[st] < Len(Airings[st])
    /\ position' = [position EXCEPT ![st] = @ + 1]

Arrive(st) ==
    /\ Transmit(st)
    /\ Process(st, Airings[st][position'[st]], "nothing")
    /\ UNCHANGED mishaps

MeetMishap(st, mishap) ==
    /\ Transmit(st)
    /\ Cardinality(mishaps) < MaxMishaps
    /\ mishaps' = mishaps \cup {<<st, position'[st]>>}
    /\ IF mishap = "lost" THEN Dropped
       ELSE Process(st, Airings[st][position'[st]], mishap)

StageNext == \E st \in Stations : Arrive(st) \/ \E mishap \in Mishaps : MeetMishap(st, mishap)

StageSpec == StageInit /\ [][StageNext]_stageVars

------------------------------------------------------------------------------
\* The lines of station st that make up the message named text.
Lines(st, text) == {i \in 1 .. Len(Airings[st]) : Airings[st][i].text = text}

Texts(st) == {Airings[st][i].text : i \in 1 .. Len(Airings[st])}

\* payload consists of fragments of this one message, all of them and in order.
IsMessage(payload, st, text) ==
    /\ Len(payload) = Cardinality(Lines(st, text))
    /\ \A i \in 1 .. Len(payload) : payload[i].text = text /\ payload[i].number = i

Copies(st, text) == {n \in 1 .. Len(messages) : IsMessage(messages[n], st, text)}

\* A fragment without a sequence id cannot be assembled.
Assemblable(st, text) ==
    \A i \in Lines(st, text) : Airings[st][i].slot = NoSlot => Airings[st][i].count = 1

\* A message none of whose lines met with a mishap is pushed exactly once and
\* unaltered, whatever happened to the messages before it, between its fragments
\* or on other stations.
WholeMessagesGetThrough ==
    \A st \in Stations : \A text \in Texts(st) \cap Decodable :
        (/\ \A i \in Lines(st, text) : i <= position[st] /\ <<st, i>> \notin mishaps
         /\ Assemblable(st, text))
        => Cardinality(Copies(st, text)) = 1

IsStitched(payload) == \E i, j \in 1 .. Len(payload) : payload[i].text # payload[j].text

\* It takes two mishaps to make add() mix two messages: a single lost, damaged or
\* unlabelled line never produces a message nobody sent.
StitchNeedsTwoMishaps ==
    Cardinality(mishaps) <= 1 => \A n \in 1 .. Len(messages) : ~IsStitched(messages[n])

\* README.md:70: "a broken fragment sequence is dropped rather than stitched
\* together wrongly".
BrokenSequenceDropped == \A n \in 1 .. Len(messages) : ~IsStitched(messages[n])
============================================================================
