----------------------------- MODULE LineFramer -----------------------------
(***************************************************************************)
(* LineFramer: lines out of chunks that end anywhere.  There is one framer *)
(* for each connection, since TcpClient::run has it as a local variable.   *)
(***************************************************************************)
EXTENDS Naturals, SequencesExt

CONSTANTS
    Characters,      \* what a stream is made of
    CR, LF,          \* two of them
    MaxCharacters,   \* bound: what the feed sends in all
    MaxConnections   \* bound: how often the client connects

ASSUME FramerAssumption ==
    /\ {CR, LF} \subseteq Characters /\ CR # LF
    /\ MaxCharacters \in Nat /\ MaxConnections \in Nat

VARIABLES
    buffer,     \* buffer_
    streams,    \* history: what has been received on each connection
    delivered   \* history: the lines returned on each connection

framerVars == <<buffer, streams, delivered>>

FramerInit == buffer = <<>> /\ streams = <<<<>>>> /\ delivered = <<<<>>>>

\* line_end: back over every carriage return at the end.
Stripped(line) ==
    SubSeq(line, 1, Max({0} \cup {i \in 1 .. Len(line) : line[i] # CR}))

\* The body of the loop, as long as there is a line feed: what is before the first
\* one is a line, and both leave the buffer.
Round(framed) ==
    LET feeds == {i \in 1 .. Len(framed.rest) : framed.rest[i] = LF}
        pos   == Min(feeds)
    IN  IF feeds = {} THEN framed
        ELSE [lines |-> Append(framed.lines, Stripped(SubSeq(framed.rest, 1, pos - 1))),
              rest  |-> SubSeq(framed.rest, pos + 1, Len(framed.rest))]

\* The loop, which has at most as many rounds as there are characters.
Framed(text) ==
    LET after[n \in 0 .. Len(text)] ==
            IF n = 0 THEN [lines |-> <<>>, rest |-> text] ELSE Round(after[n - 1])
    IN  after[Len(text)]

Feed(chunk) ==
    LET framed == Framed(buffer \o chunk)
    IN  /\ buffer' = framed.rest
        /\ delivered' = [delivered EXCEPT ![Len(delivered)] = @ \o framed.lines]

Receive(chunk) ==
    /\ Feed(chunk)
    /\ streams' = [streams EXCEPT ![Len(streams)] = @ \o chunk]

\* Mutant: the framer survives the connection.
ReconnectKeepingBuffer ==
    /\ Len(streams) < MaxConnections
    /\ streams' = Append(streams, <<>>)
    /\ delivered' = Append(delivered, <<>>)
    /\ UNCHANGED buffer

\* The connection ends, and what was left of a line with it.
Reconnect ==
    /\ Len(streams) < MaxConnections
    /\ streams' = Append(streams, <<>>)
    /\ delivered' = Append(delivered, <<>>)
    /\ buffer' = <<>>

Chunks == SeqOf(Characters, MaxCharacters - Len(FlattenSeq(streams)))

FramerNext == (\E chunk \in Chunks : Receive(chunk)) \/ Reconnect

FramerSpec == FramerInit /\ [][FramerNext]_framerVars

------------------------------------------------------------------------------
\* The lines of a whole stream, from the places of its line feeds.
LinesOf(stream) ==
    LET feeds  == {i \in 1 .. Len(stream) : stream[i] = LF}
        end    == [k \in 1 .. Cardinality(feeds) |->
                      CHOOSE i \in feeds : Cardinality({j \in feeds : j <= i}) = k]
        before == [k \in 1 .. Cardinality(feeds) |-> IF k = 1 THEN 0 ELSE end[k - 1]]
    IN  [k \in 1 .. Cardinality(feeds) |->
            SubSeq(stream, before[k] + 1,
                   CHOOSE last \in before[k] .. end[k] - 1 :
                       /\ last = before[k] \/ stream[last] # CR
                       /\ \A i \in last + 1 .. end[k] - 1 : stream[i] = CR)]

\* Wherever the chunks end, within a line or between a carriage return and its line
\* feed, the lines of each connection are those of its stream.  What one connection
\* leaves unfinished is never joined to the beginning of the next.
FramesTheStreams ==
    /\ Len(delivered) = Len(streams)
    /\ \A i \in 1 .. Len(streams) : delivered[i] = LinesOf(streams[i])
============================================================================
