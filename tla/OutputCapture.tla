---------------------------- MODULE OutputCapture ----------------------------
(***************************************************************************)
(* One output stream of a process: the ring buffer that keeps its last     *)
(* bytes (src/process/ringbuf.go), the writer that cuts it into lines      *)
(* (src/process/linewriter.go), and the history of lines of its script     *)
(* (src/script/registry.go), which the line callback appends to.  Each of  *)
(* them changes under a mutex of its own or in one goroutine: between the  *)
(* bytes of a write and each of its lines others go on.  What is delicate  *)
(* is where reads and writes meet the ends of the buffers.                 *)
(*                                                                         *)
(* A byte is its place in the stream, or Newline; a line is a sequence of  *)
(* bytes.                                                                  *)
(***************************************************************************)
EXTENDS Integers, Sequences, FiniteSets

CONSTANTS Capacity,      \* RingBuffer.capacity, not 0
          MaxPartial,    \* maxPartialLine, not 0
          MaxLines,      \* maxOutputLines, not 0
          MaxStream,     \* bytes of the whole run
          MaxMarkers     \* restarts of the whole run

VARIABLES buffer, writePos, totalWritten, overflowed,   \* RingBuffer
          pending,       \* lineWriter: what Write has yet to cut into lines
          partial,       \* lineWriter.partial
          history,       \* Entry: lines, head, len
          ended,         \* the stream is over
          given, base,   \* all bytes written, and how many before the last Reset
          log            \* all lines appended, and how many bytes are in them so far

ringVars == <<buffer, writePos, totalWritten, overflowed>>
vars == <<ringVars, pending, partial, history, ended, given, base, log>>

Newline == 0
RestartMarker == <<-1>>
Slots == 0..Capacity - 1

Init ==
    /\ buffer = [i \in Slots |-> Newline]
    /\ writePos = 0 /\ totalWritten = 0 /\ overflowed = FALSE
    /\ pending = <<>> /\ partial = <<>>
    /\ history = [lines |-> [i \in 0..MaxLines - 1 |-> <<>>], head |-> 0, len |-> 0]
    /\ ended = FALSE
    /\ given = <<>> /\ base = 0 /\ log = <<>>

\* The last n of s, or all of it.
AtMost(n, s) == IF Len(s) > n THEN SubSeq(s, Len(s) - n + 1, Len(s)) ELSE s
-----------------------------------------------------------------------------
\* Entry.appendOutput: at the limit the oldest line makes room.
Appended(h, line) ==
    [lines |-> [h.lines EXCEPT ![(h.head + h.len) % MaxLines] = line],
     head |-> IF h.len < MaxLines THEN h.head ELSE (h.head + 1) % MaxLines,
     len |-> IF h.len < MaxLines THEN h.len + 1 ELSE h.len]

\* A line, or a marker, after n bytes of the stream.
Deliver(line, n) ==
    /\ history' = Appended(history, line)
    /\ log' = Append(log, [line |-> line, upTo |-> n])

\* RingBuffer.Write; q is what is kept of p.
Placed(q) ==
    LET pos == writePos % Capacity
        at(i) == IF i >= pos THEN i - pos ELSE i + Capacity - pos
    IN  [i \in Slots |-> IF at(i) < Len(q) THEN q[at(i) + 1] ELSE buffer[i]]

\* Mutant: the flag is set one write late.
RingWriteFlagsLate(p) ==
    LET q == AtMost(Capacity, p) IN
    /\ overflowed' = (overflowed \/ Len(p) > Capacity \/ totalWritten > Capacity)
    /\ buffer' = Placed(q)
    /\ writePos' = writePos + Len(q) /\ totalWritten' = totalWritten + Len(q)

RingWrite(p) ==
    LET q == AtMost(Capacity, p) IN
    /\ overflowed' = \/ overflowed
                     \/ Len(p) > Capacity
                     \/ totalWritten + Len(q) > Capacity
    /\ buffer' = Placed(q)
    /\ writePos' = writePos + Len(q) /\ totalWritten' = totalWritten + Len(q)

\* lineWriter.Write, by the one goroutine that copies the stream: the bytes,
\* then the lines.
Write(p) ==
    /\ ~ended /\ pending = <<>>
    /\ RingWrite(p)
    /\ given' = given \o p /\ pending' = p
    /\ UNCHANGED <<partial, history, ended, base, log>>

Newlines(s) == {i \in 1..Len(s) : s[i] = Newline}

\* The line that the next newline completes.
CutLine ==
    \E k \in Newlines(pending) :
        /\ \A i \in Newlines(pending) : k <= i
        /\ Deliver(partial \o SubSeq(pending, 1, k - 1), Len(given) - Len(pending) + k)
        /\ pending' = SubSeq(pending, k + 1, Len(pending)) /\ partial' = <<>>
        /\ UNCHANGED <<ringVars, ended, given, base>>

\* No newline is left.  A line that has reached the limit is delivered without
\* its end.
KeepPartial ==
    /\ pending # <<>> /\ Newlines(pending) = {}
    /\ LET line == partial \o pending IN
       IF Len(line) >= MaxPartial
       THEN Deliver(line, Len(given)) /\ partial' = <<>>
       ELSE partial' = line /\ UNCHANGED <<history, log>>
    /\ pending' = <<>>
    /\ UNCHANGED <<ringVars, ended, given, base>>

\* The bytes of the next write: any of them may be a newline.
NextBytes ==
    UNION {{[i \in 1..n |-> IF i \in ends THEN Newline ELSE Len(given) + i] :
               ends \in SUBSET (1..n)} : n \in 1..MaxStream - Len(given)}

\* waitForProcess, when the process and the copying are over.
Flush ==
    /\ ~ended /\ pending = <<>>
    /\ ended' = TRUE /\ partial' = <<>>
    /\ IF partial = <<>> THEN UNCHANGED <<history, log>> ELSE Deliver(partial, Len(given))
    /\ UNCHANGED <<ringVars, pending, given, base>>

\* How many bytes are in the lines before the n-th entry.
Before(n) == IF n = 1 THEN 0 ELSE log[n - 1].upTo

\* ProcessManager.Restart marks the history before it stops the process.
AddRestartMarker ==
    /\ Cardinality({n \in 1..Len(log) : log[n].line = RestartMarker}) < MaxMarkers
    /\ Deliver(RestartMarker, Before(Len(log) + 1))
    /\ UNCHANGED <<ringVars, pending, partial, ended, given, base>>

\* RingBuffer.Reset.
Reset ==
    /\ base < Len(given)
    /\ writePos' = 0 /\ totalWritten' = 0 /\ overflowed' = FALSE
    /\ base' = Len(given)
    /\ UNCHANGED <<buffer, pending, partial, history, ended, given, log>>

Next ==
    \/ \E p \in NextBytes : Write(p)
    \/ CutLine \/ KeepPartial \/ Flush \/ AddRestartMarker \/ Reset

Spec == Init /\ [][Next]_vars
-----------------------------------------------------------------------------
\* RingBuffer.Snapshot.
Snapshot ==
    IF totalWritten <= Capacity
    THEN [data |-> [i \in 1..totalWritten |-> buffer[i - 1]], truncated |-> overflowed]
    ELSE [data |-> [i \in 1..Capacity |-> buffer[(writePos + i - 1) % Capacity]],
          truncated |-> TRUE]

\* Entry.OutputLines.
OutputLines ==
    [i \in 1..history.len |-> history.lines[(history.head + i - 1) % MaxLines]]

TypeOK ==
    /\ buffer \in [Slots -> 0..MaxStream]
    /\ writePos \in 0..MaxStream /\ totalWritten = writePos
    /\ overflowed \in BOOLEAN /\ ended \in BOOLEAN /\ base \in 0..Len(given)
    /\ history.head \in 0..MaxLines - 1 /\ history.len \in 0..MaxLines

\* A snapshot is the end of what was written, and says truthfully whether
\* anything before it is lost.
RingKeepsTail ==
    LET kept == SubSeq(given, base + 1, Len(given)) IN
    /\ Snapshot = [data |-> AtMost(Capacity, kept), truncated |-> Len(kept) > Capacity]
    /\ overflowed = (Len(kept) > Capacity)

\* The lines, one after the other, with the one in progress are the bytes of
\* the stream, each once and in order.  A line ends at a newline, at the limit
\* or with the stream, and never runs over a newline; the line in progress is
\* bounded, and delivered at the end.
LinesAddUp ==
    /\ \A n \in 1..Len(log) :
         LET line == log[n].line
             bytes == SubSeq(given, Before(n) + 1, log[n].upTo)
         IN  \/ line = RestartMarker /\ bytes = <<>>
             \/ /\ Newlines(line) = {}
                /\ \/ bytes = Append(line, Newline)
                   \/ /\ bytes = line /\ line # <<>>
                      /\ Len(line) >= MaxPartial \/ (ended /\ log[n].upTo = Len(given))
    /\ partial \o pending = SubSeq(given, Before(Len(log) + 1) + 1, Len(given))
    /\ Newlines(partial) = {} /\ Len(partial) < MaxPartial
    /\ ended => partial = <<>> /\ pending = <<>>

\* The history of a script is the end of its lines and markers.
HistoryKeepsTail ==
    OutputLines = AtMost(MaxLines, [n \in 1..Len(log) |-> log[n].line])

\* What a reader gets of a process's output is what the process has written, up
\* to the limits, and says so where the limits have cut it (RingBuffer,
\* lineWriter, Entry.OutputLines).
OutputIsKept == RingKeepsTail /\ LinesAddUp /\ HistoryKeepsTail
=============================================================================
