----------------------------- MODULE WireProofs -----------------------------
(***************************************************************************)
(* Theorems about Wire, for any numbers of requests, links, chunks, ticks, *)
(* faults and closers.  The inductive invariant says what can be on the    *)
(* link in service while a request waits: nothing of its answer yet, a     *)
(* beginning of it, or the rest of it to the last frame; and that a link   *)
(* that is kept between two requests is clean.                             *)
(***************************************************************************)
EXTENDS Wire, TLAPS, FiniteSetTheorems

Bounds ==
    /\ MaxRequests \in Nat /\ MaxLinks \in Nat /\ Chunks \in Nat
    /\ MaxTicks \in Nat /\ MaxFaults \in Nat

Request == [n : Numbers, kind : Kinds]
Frames == [type : {"pong", "ok", "end", "err", "status", "chunk"}, n : Numbers]

ConnType ==
    /\ link \in 0..MaxLinks /\ dialled \in 0..MaxLinks /\ closed \in BOOLEAN
    /\ late \subseteq Links /\ shut \subseteq Links

ReqType ==
    /\ req \in [n : 0..MaxRequests, kind : Kinds]
    /\ step \in {"send", "read", "ok", "failed"} /\ got \in Seq(Frames)
    /\ step # "failed" => req.n # 0

UpType == up \in [Links -> Seq(Request)]
DownType == down \in [Links -> Seq(Frames)]

HubType ==
    /\ hpc \in [Links -> {"none", "idle", "handle", "return", "gone"}]
    /\ DOMAIN hreq = Links /\ sent \in [Links -> 0..Chunks]
    /\ terminal \in [Links -> BOOLEAN]
    /\ \A i \in Links : hpc[i] = "handle" => hreq[i] \in Request

TickType ==
    /\ ticker \in [Numbers -> {"off", "waits", "fires"}]
    /\ via \in [Numbers -> 0..MaxLinks]
    /\ \A n \in Numbers : ticker[n] # "off" => via[n] # 0

CountType == ticks \in 0..MaxTicks /\ faults \in 0..MaxFaults

TypeInv ==
    ConnType /\ ReqType /\ UpType /\ DownType /\ HubType /\ TickType /\ CountType

\* Links are dialled in order; one that has not been is untouched, and one
\* that the client has closed stays empty on the client's side.
LinkInv ==
    /\ link <= dialled /\ link \notin shut
    /\ \A i \in shut : i <= dialled
    /\ \A i \in Links : i > dialled =>
          /\ hpc[i] = "none" /\ up[i] = <<>> /\ down[i] = <<>>
          /\ \A n \in Numbers : via[n] # i
    /\ \A i \in Links : i <= dialled => hpc[i] # "none"
    /\ \A i \in Links : hpc[i] \in {"none", "idle", "gone"} => sent[i] = 0

\* No STATUS can be written to the link i now.
Quiet(i) == terminal[i] \/ hpc[i] = "gone" \/ \A n \in Numbers : via[n] # i

Clean(i) ==
    /\ up[i] = <<>> /\ down[i] = <<>>
    /\ hpc[i] \in {"idle", "return", "gone"} /\ Quiet(i)

ChunksIn(s) == Cardinality({m \in 1..Len(s) : s[m].type = "chunk"})

\* Frame f keeps the current request going.
Going(f) ==
    \/ f.type = "status" /\ req.kind # "ping"
    \/ f.type = "chunk" /\ req.kind = "chunked" /\ f.n = req.n

Unread(i) ==
    /\ up[i] = <<req>> /\ down[i] = <<>> /\ got = <<>>
    /\ hpc[i] \in {"idle", "return", "gone"} /\ Quiet(i)

Underway(i) ==
    /\ up[i] = <<>> /\ hpc[i] \in {"handle", "gone"}
    /\ \A m \in 1..Len(down[i]) : Going(down[i][m])
    /\ hpc[i] = "handle" => /\ hreq[i] = req
                            /\ Len(got) + ChunksIn(down[i]) = sent[i]
                            /\ req.kind = "ping" => Quiet(i)

Last(f) ==
    /\ f.n = req.n
    /\ f.type = "err" \/ Finishes(req.kind, f.type)

Answered(i) ==
    /\ up[i] = <<>> /\ hpc[i] \in {"idle", "return", "gone"} /\ Quiet(i)
    /\ Len(down[i]) > 0
    /\ \A m \in 1..Len(down[i]) - 1 : Going(down[i][m])
    /\ Last(down[i][Len(down[i])])
    /\ down[i][Len(down[i])].type = "end" => Len(got) + ChunksIn(down[i]) = Chunks

ClientInv ==
    /\ step \in {"send", "read"} => link # 0
    /\ step # "read" /\ link # 0 => Clean(link)
    /\ step = "read" => Unread(link) \/ Underway(link) \/ Answered(link)
    /\ step = "send" => got = <<>>
    /\ step = "read" => /\ \A m \in 1..Len(got) : got[m].n = req.n
                        /\ req.kind # "chunked" => got = <<>>

IInv == TypeInv /\ LinkInv /\ ClientInv /\ AnswersMatch

-----------------------------------------------------------------------------
(***************************************************************************)
(* Counting the chunks in a sequence of frames.                            *)
(***************************************************************************)
LEMMA ChunksFinite ==
    ASSUME NEW s \in Seq(Frames)
    PROVE  /\ IsFiniteSet({m \in 1..Len(s) : s[m].type = "chunk"})
           /\ ChunksIn(s) \in Nat
<1>1. IsFiniteSet(1..Len(s))
  BY FS_Interval
<1>2. {m \in 1..Len(s) : s[m].type = "chunk"} \in SUBSET (1..Len(s))
  OBVIOUS
<1> QED BY <1>1, <1>2, FS_Subset, FS_CardinalityType DEF ChunksIn

\* The empty sequence has no chunk.
LEMMA ChunksOfNone == ChunksIn(<<>>) = 0
<1>1. {m \in 1..Len(<<>>) : <<>>[m].type = "chunk"} = {}
  OBVIOUS
<1> QED BY <1>1, FS_EmptySet DEF ChunksIn

\* One more if the frame that is written is a chunk.
LEMMA ChunksAppend ==
    ASSUME NEW s \in Seq(Frames), NEW f \in Frames
    PROVE  ChunksIn(Append(s, f)) = IF f.type = "chunk" THEN ChunksIn(s) + 1 ELSE ChunksIn(s)
<1> DEFINE S == {m \in 1..Len(s) : s[m].type = "chunk"}
           T == {m \in 1..Len(Append(s, f)) : Append(s, f)[m].type = "chunk"}
<1>1. IsFiniteSet(S) /\ Cardinality(S) \in Nat /\ ChunksIn(s) = Cardinality(S)
  BY ChunksFinite DEF ChunksIn
<1>2. T = IF f.type = "chunk" THEN S \cup {Len(s) + 1} ELSE S
  OBVIOUS
<1>3. Len(s) + 1 \notin S
  OBVIOUS
<1>4. ChunksIn(Append(s, f)) = Cardinality(T)
  BY DEF ChunksIn
<1> HIDE DEF S, T
<1> QED BY <1>1, <1>2, <1>3, <1>4, FS_AddElement

\* One less if the frame that is read is a chunk.
LEMMA ChunksTail ==
    ASSUME NEW s \in Seq(Frames), s # <<>>
    PROVE  ChunksIn(s) = IF Head(s).type = "chunk" THEN ChunksIn(Tail(s)) + 1
                                                   ELSE ChunksIn(Tail(s))
<1> DEFINE S == {m \in 1..Len(s) : s[m].type = "chunk"}
           T == {m \in 1..Len(Tail(s)) : Tail(s)[m].type = "chunk"}
           g == [m \in T |-> m + 1]
<1>0. Tail(s) \in Seq(Frames) /\ Len(Tail(s)) = Len(s) - 1 /\ Len(s) \in Nat /\ Len(s) > 0
  OBVIOUS
<1>a. \A m \in 1..Len(Tail(s)) : Tail(s)[m] = s[m + 1]
  OBVIOUS
<1>1. IsFiniteSet(S) /\ Cardinality(S) \in Nat /\ ChunksIn(s) = Cardinality(S)
  BY ChunksFinite DEF ChunksIn
<1>2. IsFiniteSet(T) /\ Cardinality(T) \in Nat /\ ChunksIn(Tail(s)) = Cardinality(T)
  BY <1>0, ChunksFinite DEF ChunksIn
<1>3. g \in Bijection(T, S \ {1})
  <2>1. g \in [T -> S \ {1}]
    BY <1>0, <1>a
  <2>2. \A m, n \in T : g[m] = g[n] => m = n
    OBVIOUS
  <2>3. \A n \in S \ {1} : \E m \in T : g[m] = n
    <3> TAKE n \in S \ {1}
    <3>1. n - 1 \in T /\ g[n - 1] = n
      BY <1>0, <1>a
    <3> QED BY <3>1
  <2> QED BY <2>1, <2>2, <2>3 DEF Bijection, Injection, Surjection, IsInjective
<1>4. Cardinality(S \ {1}) = Cardinality(T)
  <2> HIDE DEF g, S, T
  <2> QED BY <1>2, <1>3, FS_Bijection DEF ExistsBijection
<1>5. 1 \in S <=> Head(s).type = "chunk"
  BY <1>0
<1> HIDE DEF S, T
<1>6. Cardinality(S \ {1}) = IF 1 \in S THEN Cardinality(S) - 1 ELSE Cardinality(S)
  BY <1>1, FS_RemoveElement
<1> QED BY <1>1, <1>2, <1>4, <1>5, <1>6
-----------------------------------------------------------------------------
\* An error leaves well-typed state.
LEMMA HandleErrorType ==
    ASSUME Bounds, ConnType, DownType, link # 0, HandleError, UNCHANGED dialled,
           closed' \in BOOLEAN
    PROVE  ConnType' /\ DownType'
<1>1. link \in Links /\ 0 \in 0..MaxLinks
  BY DEF Bounds, ConnType, Links
<1>2. <<>> \in Seq(Frames)
  OBVIOUS
<1>3. ConnType'
  BY <1>1 DEF HandleError, ConnType
<1>4. DownType'
  BY <1>1, <1>2 DEF HandleError, DownType
<1> QED BY <1>3, <1>4

\* Writing a frame keeps the types of the links.
LEMMA WritesType ==
    ASSUME DownType, NEW i \in Links, NEW f \in Frames, Writes(i, f)
    PROVE  DownType'
<1>1. Append(down[i], f) \in Seq(Frames)
  BY DEF DownType
<1> QED BY <1>1 DEF Writes, DownType

\* Every step keeps the types.
LEMMA TypeStep ==
    ASSUME Bounds, TypeInv, LinkInv, ClientInv, [Next]_vars
    PROVE  TypeInv'
<1> USE DEF Bounds, TypeInv, connVars, clientVars, wireVars, hubVars, tickVars
<1>1. CASE UNCHANGED vars
  BY <1>1 DEF vars, ConnType, ReqType, UpType, DownType, HubType, TickType, CountType
<1>l. step \in {"send", "read"} => link \in Links
  BY DEF ClientInv, ConnType, Links
<1>2. CASE Begin
  <2>1. ConnType' BY <1>2 DEF Begin, ConnType, Links
  <2>2. ReqType' BY <1>2 DEF Begin, ReqType
  <2>3. HubType' BY <1>2 DEF Begin, HubType, ConnType, Links
  <2> QED BY <1>2, <2>1, <2>2, <2>3 DEF Begin, UpType, DownType, TickType, CountType
<1>3. CASE Send
  <2>0. link # 0
    BY <1>3, <1>l DEF Send, Links
  <2>1. ConnType' BY <1>3, <2>0, HandleErrorType DEF Send, ConnType, Links
  <2>2. ReqType' BY <1>3 DEF Send, ReqType
  <2>3. UpType'
    <3>1. step # "failed" => req \in Request
      BY DEF ReqType, Request, Numbers, Kinds
    <3> QED BY <1>3, <1>l, <3>1 DEF Send, WritesCommand, UpType
  <2>4. DownType' BY <1>3, <2>0, HandleErrorType DEF Send, DownType, ConnType
  <2> QED BY <1>3, <2>1, <2>2, <2>3, <2>4 DEF Send, HubType, TickType, CountType
<1>4. CASE Read
  <2>0. down[link] \in Seq(Frames) /\ down[link] # <<>> /\ Head(down[link]) \in Frames
        /\ Tail(down[link]) \in Seq(Frames)
    BY <1>4, <1>l DEF Read, DownType
  <2>1. ConnType' BY <1>4 DEF Read, ConnType
  <2>2. ReqType'
    <3>1. /\ got \in Seq(Frames) /\ Append(got, Head(down[link])) \in Seq(Frames)
          /\ <<>> \in Seq(Frames)
      BY <2>0 DEF ReqType
    <3>2. got' \in Seq(Frames)
      BY <1>4, <3>1 DEF Read, ParsedResponse
    <3> QED BY <1>4, <3>2 DEF Read, ReqType
  <2>3. DownType' BY <1>4, <1>l, <2>0 DEF Read, DownType
  <2> QED BY <1>4, <2>1, <2>2, <2>3 DEF Read, UpType, HubType, TickType, CountType
<1>5. CASE ReadFails
  <2>1. ConnType' /\ DownType'
    <3>1. link # 0
      BY <1>5, <1>l DEF ReadFails, Links
    <3> QED BY <1>5, <3>1, HandleErrorType DEF ReadFails, ConnType
  <2>2. ReqType' BY <1>5 DEF ReadFails, ReqType
  <2> QED BY <1>5, <2>1, <2>2 DEF ReadFails, UpType, HubType, TickType, CountType
<1>6. CASE DeadlinePasses
  <2>1. ConnType' BY <1>6 DEF DeadlinePasses, ConnType, Links
  <2>2. CountType' BY <1>6 DEF DeadlinePasses, CountType
  <2> QED BY <1>6, <2>1, <2>2 DEF DeadlinePasses, ReqType, UpType, DownType, HubType, TickType
<1>7. ASSUME NEW n \in Numbers, TickerFires(n) \/ TickerWrites(n) \/ TickerEnds(n)
      PROVE  TypeInv'
  <2>1. TickType' BY <1>7 DEF TickerFires, TickerWrites, TickerEnds, TickType
  <2>2. DownType'
    <3>1. Frame("status", n) \in Frames
      BY <1>7 DEF Frame, Frames
    <3>2. CASE ~TickerWrites(n) BY <1>7, <3>2 DEF TickerFires, TickerEnds, wireVars, DownType
    <3>3. CASE TickerWrites(n)
      <4>1. via[n] \in Links
        BY <3>3 DEF TickerWrites, TickType, Links
      <4> QED BY <3>1, <3>3, <4>1, WritesType DEF TickerWrites, DownType
    <3> QED BY <3>2, <3>3
  <2>3. CountType' BY <1>7 DEF TickerFires, TickerWrites, TickerEnds, CountType
  <2>4. UNCHANGED <<connVars, clientVars, up, shut, hubVars>>
    BY <1>7 DEF TickerFires, TickerWrites, TickerEnds
  <2> QED BY <2>1, <2>2, <2>3, <2>4 DEF ConnType, ReqType, UpType, HubType
<1>8. ASSUME NEW i \in Links, HubReads(i)
      PROVE  TypeInv'
  <2>0. up[i] \in Seq(Request) /\ Head(up[i]) \in Request /\ Tail(up[i]) \in Seq(Request)
    BY <1>8 DEF HubReads, UpType
  <2>1. UpType' BY <1>8, <2>0 DEF HubReads, UpType
  <2>2. HubType' BY <1>8, <2>0 DEF HubReads, ParsedCommand, HubType
  <2>3. TickType'
    <3>1. Head(up[i]).n \in Numbers /\ i \in 0..MaxLinks /\ i # 0
      BY <2>0 DEF Request, Links
    <3> QED BY <1>8, <3>1 DEF HubReads, ParsedCommand, TickType
  <2> QED BY <1>8, <2>1, <2>2, <2>3 DEF HubReads, ConnType, ReqType, DownType, CountType
<1>9. ASSUME NEW i \in Links, HubChunk(i) \/ HubAnswers(i)
      PROVE  TypeInv'
  <2>0. hreq[i].n \in Numbers
    BY <1>9 DEF HubChunk, HubAnswers, HubType, Request
  <2>1. DownType'
    <3>1. \A t \in {"pong", "ok", "end", "err", "chunk"} : Frame(t, hreq[i].n) \in Frames
      BY <2>0 DEF Frame, Frames
    <3> QED BY <1>9, <3>1, WritesType DEF HubChunk, HubAnswers
  <2>2. CASE HubChunk(i)
    <3>1. sent[i] + 1 \in 0..Chunks
      BY <2>2 DEF HubChunk, HubType
    <3>2. HubType' BY <2>2, <3>1 DEF HubChunk, HubType
    <3> QED BY <2>2, <2>1, <3>2 DEF HubChunk, ConnType, ReqType, UpType, TickType, CountType
  <2>3. CASE HubAnswers(i)
    <3>1. HubType' BY <2>3 DEF HubAnswers, HubType
    <3> QED BY <2>3, <2>1, <3>1 DEF HubAnswers, ConnType, ReqType, UpType, TickType, CountType
  <2> QED BY <1>9, <2>2, <2>3
<1>10. ASSUME NEW i \in Links, HubReturns(i) \/ HubCloses(i)
       PROVE  TypeInv'
  <2>1. HubType'
    <3>1. 0 \in 0..Chunks
      OBVIOUS
    <3> QED BY ZenonT(60), <1>10, <3>1 DEF HubReturns, HubCloses, HubType
  <2>2. CountType' BY <1>10 DEF HubReturns, HubCloses, CountType
  <2> QED BY <1>10, <2>1, <2>2 DEF HubReturns, HubCloses, ConnType, ReqType, UpType, DownType,
             TickType
<1>11. ASSUME NEW k \in Closers, Interrupt(k) \/ Close(k)
       PROVE  TypeInv'
  <2>1. CASE Interrupt(k)
    BY <2>1 DEF Interrupt, ConnType, Links, ReqType, UpType, DownType, HubType, TickType,
       CountType
  <2>2. CASE Close(k)
    <3>1. ConnType' /\ DownType'
      <4>1. CASE link = 0 BY <2>2, <4>1 DEF Close, ConnType, DownType
      <4>2. CASE link # 0
        <5>1. HandleError /\ UNCHANGED dialled /\ closed' \in BOOLEAN
          BY <2>2, <4>2 DEF Close, ConnType
        <5>2. ConnType' /\ DownType'
          BY <4>2, <5>1, HandleErrorType
        <5> QED BY <5>2
      <4> QED BY <4>1, <4>2
    <3> QED BY <2>2, <3>1 DEF Close, ReqType, UpType, HubType, TickType, CountType
  <2> QED BY <1>11, <2>1, <2>2
<1> QED BY <1>1, <1>2, <1>3, <1>4, <1>5, <1>6, <1>7, <1>8, <1>9, <1>10, <1>11 DEF Next

-----------------------------------------------------------------------------
\* Links stay in order.
LEMMA LinkStep ==
    ASSUME Bounds, TypeInv, TypeInv', LinkInv, ClientInv, [Next]_vars
    PROVE  LinkInv'
<1> USE DEF connVars, clientVars, wireVars, hubVars, tickVars
<1>c. /\ link \in 0..MaxLinks /\ dialled \in 0..MaxLinks /\ shut \subseteq Links
      /\ up \in [Links -> Seq(Request)] /\ down \in [Links -> Seq(Frames)]
      /\ hpc \in [Links -> {"none", "idle", "handle", "return", "gone"}]
      /\ sent \in [Links -> 0..Chunks] /\ via \in [Numbers -> 0..MaxLinks]
      /\ MaxLinks \in Nat
  BY DEF TypeInv, ConnType, UpType, DownType, HubType, TickType, Bounds
<1>l. /\ step \in {"send", "read"} => link # 0
      /\ link # 0 => link \in Links /\ ~(link > dialled)
  BY <1>c DEF ClientInv, LinkInv, Links
<1>i. \A i \in Links : i \in Nat /\ i > 0 /\ i <= MaxLinks
  BY <1>c DEF Links
<1>h. ASSUME link # 0, HandleError
      PROVE  /\ link' = 0 /\ shut' = shut \cup {link} /\ link <= dialled
             /\ \A i \in Links : i > dialled => down'[i] = down[i]
  BY <1>h, <1>c, <1>l DEF HandleError, LinkInv
<1>0. 0 \notin shut /\ 0 \notin shut'
  BY <1>i DEF TypeInv, ConnType, Links
<1>1. CASE UNCHANGED vars BY <1>1 DEF vars, LinkInv
<1>2. CASE Begin
  <2>1. CASE closed \/ link # 0
    BY <1>2, <2>1 DEF Begin, LinkInv
  <2>2. CASE ~closed /\ link = 0
    <3>1. /\ dialled + 1 \in Links /\ dialled' = dialled + 1 /\ link' = dialled + 1
          /\ hpc' = [hpc EXCEPT ![dialled + 1] = "idle"]
          /\ UNCHANGED <<shut, up, down, via, sent>>
      BY <1>2, <2>2, <1>c DEF Begin, Links
    <3>2. hpc[dialled + 1] = "none"
      BY <3>1, <1>c DEF LinkInv
    <3> QED BY <3>1, <3>2, <1>c, <1>i DEF LinkInv
  <2> QED BY <2>1, <2>2
<1>3. CASE Send
  <2>1. CASE hpc[link] = "gone"
    BY <1>3, <2>1, <1>h, <1>l, <1>0, <1>c DEF Send, LinkInv
  <2>2. CASE hpc[link] # "gone"
    <3>1. \A i \in Links : i > dialled => up'[i] = up[i]
      BY <1>3, <2>2, <1>l, <1>c DEF Send, WritesCommand
    <3> QED BY <1>3, <2>2, <3>1 DEF Send, LinkInv
  <2> QED BY <2>1, <2>2
<1>4. CASE Read
  <2>1. \A i \in Links : i > dialled => down'[i] = down[i]
    BY <1>4, <1>l, <1>c DEF Read
  <2> QED BY <1>4, <2>1 DEF Read, LinkInv
<1>5. CASE ReadFails
  BY <1>5, <1>h, <1>l, <1>0, <1>c DEF ReadFails, LinkInv
<1>6. CASE DeadlinePasses BY <1>6 DEF DeadlinePasses, LinkInv
<1>7. ASSUME NEW n \in Numbers, TickerFires(n) \/ TickerWrites(n) \/ TickerEnds(n)
      PROVE  LinkInv'
  <2>1. CASE TickerFires(n) BY <2>1 DEF TickerFires, LinkInv
  <2>2. CASE TickerWrites(n)
    <3>1. via[n] \in Links
      BY <2>2 DEF TickerWrites, TypeInv, TickType, Links
    <3>2. \A i \in Links : i > dialled => down'[i] = down[i]
      BY <2>2, <3>1, <1>c DEF TickerWrites, Writes, LinkInv
    <3> QED BY <2>2, <3>2 DEF TickerWrites, LinkInv
  <2>3. CASE TickerEnds(n) BY <2>3, <1>c, <1>i DEF TickerEnds, LinkInv
  <2> QED BY <1>7, <2>1, <2>2, <2>3
<1>8. ASSUME NEW i \in Links, \/ HubReads(i) \/ HubChunk(i) \/ HubAnswers(i)
                              \/ HubReturns(i) \/ HubCloses(i)
      PROVE  LinkInv'
  <2>1. CASE HubReads(i)
    <3>1. ~(i > dialled)
      BY <2>1 DEF HubReads, LinkInv
    <3>2. /\ \A j \in Links : j > dialled => up'[j] = up[j] /\ hpc'[j] = hpc[j]
          /\ \A j \in Links, n \in Numbers : j > dialled /\ via[n] # j => via'[n] # j
          /\ hpc'[i] = "handle" /\ \A j \in Links : j # i => hpc'[j] = hpc[j]
      BY <2>1, <3>1, <1>c DEF HubReads
    <3> QED BY <2>1, <3>2 DEF HubReads, LinkInv
  <2>2. CASE HubChunk(i)
    <3>1. ~(i > dialled)
      BY <2>2 DEF HubChunk, LinkInv
    <3>2. \A j \in Links : j # i => down'[j] = down[j] /\ sent'[j] = sent[j]
      BY <2>2, <1>c DEF HubChunk, Writes
    <3> QED BY <2>2, <3>1, <3>2 DEF HubChunk, LinkInv
  <2>3. CASE HubAnswers(i)
    <3>1. ~(i > dialled)
      BY <2>3 DEF HubAnswers, LinkInv
    <3>2. \A j \in Links : j # i => down'[j] = down[j] /\ hpc'[j] = hpc[j]
      BY <2>3, <1>c DEF HubAnswers, Writes
    <3>3. hpc'[i] = "return"
      BY <2>3, <1>c DEF HubAnswers
    <3> QED BY <2>3, <3>1, <3>2, <3>3 DEF HubAnswers, LinkInv
  <2>4. CASE HubReturns(i) \/ HubCloses(i)
    <3>1. ~(i > dialled)
      BY <2>4 DEF HubReturns, HubCloses, LinkInv
    <3>2. /\ \A j \in Links : j # i => hpc'[j] = hpc[j] /\ sent'[j] = sent[j]
          /\ hpc'[i] \in {"idle", "gone"} /\ sent'[i] = 0
      BY <2>4, <1>c DEF HubReturns, HubCloses
    <3> QED BY <2>4, <3>1, <3>2 DEF HubReturns, HubCloses, LinkInv
  <2> QED BY <1>8, <2>1, <2>2, <2>3, <2>4
<1>9. ASSUME NEW k \in Closers, Interrupt(k) \/ Close(k)
      PROVE  LinkInv'
  BY <1>9, <1>h, <1>0, <1>c DEF Interrupt, Close, LinkInv
<1> QED BY <1>1, <1>2, <1>3, <1>4, <1>5, <1>6, <1>7, <1>8, <1>9 DEF Next

-----------------------------------------------------------------------------
\* What does not touch the link in service keeps what is known of it.
LEMMA Untouched ==
    ASSUME ClientInv, AnswersMatch, UNCHANGED <<link, req, step, got>>,
           link # 0 => /\ up'[link] = up[link] /\ down'[link] = down[link]
                       /\ hpc'[link] = hpc[link] /\ hreq'[link] = hreq[link]
                       /\ sent'[link] = sent[link] /\ terminal'[link] = terminal[link]
                       /\ \A n \in Numbers : via'[n] = link => via[n] = link
    PROVE  ClientInv' /\ AnswersMatch'
<1>1. AnswersMatch'
  BY DEF AnswersMatch
<1>2. CASE link = 0
  BY <1>1, <1>2 DEF ClientInv
<1>3. CASE link # 0
  <2>1. Quiet(link) => Quiet(link)'
    BY <1>3 DEF Quiet
  <2>2. Clean(link) => Clean(link)'
    BY <1>3, <2>1 DEF Clean
  <2>3. Unread(link) => Unread(link)'
    BY <1>3, <2>1 DEF Unread
  <2>4. Underway(link) => Underway(link)'
    BY <1>3, <2>1 DEF Underway, Going
  <2>5. Answered(link) => Answered(link)'
    BY <1>3, <2>1 DEF Answered, Going, Last
  <2> QED BY <1>1, <1>3, <2>2, <2>3, <2>4, <2>5 DEF ClientInv
<1> QED BY <1>1, <1>2, <1>3

\* A request begins on a clean link, the one there is or a new one.
LEMMA BeginStep ==
    ASSUME Bounds, TypeInv, LinkInv, ClientInv, Begin
    PROVE  ClientInv' /\ AnswersMatch'
<1> USE DEF Begin, wireVars, tickVars
<1>1. got' = <<>> /\ step' \in {"send", "failed"} /\ UNCHANGED <<up, down, terminal, via>>
  OBVIOUS
<1>2. step # "read"
  BY DEF Unlocked
<1>3. CASE closed \/ link # 0
  <2>1. UNCHANGED <<link, hpc>> /\ (step' = "send" => link # 0)
    BY <1>3
  <2>2. link # 0 => Clean(link)'
    BY <1>1, <1>2, <2>1 DEF ClientInv, Clean, Quiet
  <2> QED BY <1>1, <2>1, <2>2 DEF ClientInv, AnswersMatch
<1>4. CASE ~closed /\ link = 0
  <2>1. /\ dialled + 1 \in Links /\ dialled + 1 > dialled /\ link' = dialled + 1
        /\ hpc' = [hpc EXCEPT ![dialled + 1] = "idle"]
    BY <1>4 DEF TypeInv, ConnType, Links, Bounds
  <2>2. hpc'[dialled + 1] = "idle"
    BY <2>1 DEF TypeInv, HubType
  <2>3. Clean(link)'
    <3>1. /\ up[dialled + 1] = <<>> /\ down[dialled + 1] = <<>>
          /\ \A n \in Numbers : via[n] # dialled + 1
      BY <2>1 DEF LinkInv
    <3> QED BY <1>1, <2>1, <2>2, <3>1 DEF Clean, Quiet
  <2>4. link' # 0
    BY <2>1 DEF TypeInv, ConnType
  <2> QED BY <1>1, <2>3, <2>4 DEF ClientInv, AnswersMatch
<1> QED BY <1>3, <1>4

\* Sending a request: the link it takes is clean.
LEMMA SendStep ==
    ASSUME TypeInv, LinkInv, ClientInv, Send
    PROVE  ClientInv' /\ AnswersMatch'
<1> USE DEF Send, hubVars, tickVars
<1>1. link \in Links /\ link # 0 /\ Clean(link) /\ got = <<>>
  BY DEF ClientInv, TypeInv, ConnType, Links
<1>2. CASE hpc[link] = "gone"
  BY <1>2 DEF HandleError, ClientInv, AnswersMatch
<1>3. CASE hpc[link] # "gone"
  <2>1. up'[link] = <<req>> /\ down'[link] = <<>>
    BY <1>1, <1>3 DEF WritesCommand, Clean, TypeInv, UpType
  <2>2. Unread(link)'
    BY <1>1, <1>3, <2>1 DEF Unread, Clean, Quiet
  <2> QED BY <1>1, <1>3, <2>2 DEF ClientInv, AnswersMatch
<1> QED BY <1>2, <1>3

\* A frame that is read goes on with the answer or is the last of it.
LEMMA ReadStep ==
    ASSUME Bounds, TypeInv, LinkInv, ClientInv, Read
    PROVE  ClientInv' /\ AnswersMatch'
<1> USE DEF Read, hubVars, tickVars, ParsedResponse
<1> DEFINE s == down[link]
           f == Head(s)
<1>0. /\ link \in Links /\ link # 0 /\ down \in [Links -> Seq(Frames)]
      /\ got \in Seq(Frames)
  BY DEF ClientInv, TypeInv, ConnType, DownType, ReqType, Links
<1>1. /\ s \in Seq(Frames) /\ s # <<>> /\ f \in Frames /\ Tail(s) \in Seq(Frames)
      /\ f = s[1] /\ Len(s) \in Nat /\ Len(s) > 0 /\ Len(Tail(s)) = Len(s) - 1
      /\ \A m \in 1..Len(Tail(s)) : Tail(s)[m] = s[m + 1]
  BY <1>0
<1>2. /\ down'[link] = Tail(s) /\ link' = link /\ req' = req
      /\ UNCHANGED <<up, hpc, hreq, sent, terminal, via>>
  BY <1>0
<1>q. Quiet(link) => Quiet(link)'
  BY <1>2 DEF Quiet
<1>3. /\ Underway(link) \/ Answered(link)
      /\ \A m \in 1..Len(got) : got[m].n = req.n
      /\ req.kind # "chunked" => got = <<>>
  BY <1>1 DEF ClientInv, Unread
<1>c. /\ ChunksIn(s) = IF f.type = "chunk" THEN ChunksIn(Tail(s)) + 1 ELSE ChunksIn(Tail(s))
      /\ ChunksIn(s) \in Nat /\ ChunksIn(Tail(s)) \in Nat
  BY <1>1, ChunksTail, ChunksFinite
<1>g. /\ Len(Append(got, f)) = Len(got) + 1 /\ Len(got) \in Nat
      /\ \A m \in 1..Len(got) : Append(got, f)[m] = got[m]
      /\ Append(got, f)[Len(got) + 1] = f
  BY <1>0, <1>1
<1>k. req.kind \in Kinds
  BY DEF TypeInv, ReqType
<1> HIDE DEF s, f
<1>4. CASE Going(f)
  <2>1. /\ step' = "read"
        /\ got' = IF f.type = "chunk" THEN Append(got, f) ELSE got
    BY <1>4 DEF Going, f, s
  <2>2. /\ \A m \in 1..Len(got') : got'[m].n = req.n
        /\ req.kind # "chunked" => got' = <<>>
        /\ Len(got') + ChunksIn(Tail(s)) = Len(got) + ChunksIn(s)
    <3>1. CASE f.type = "chunk"
      <4>1. req.kind = "chunked" /\ f.n = req.n
        BY <1>4, <3>1 DEF Going
      <4>2. got' = Append(got, f) /\ Len(got') = Len(got) + 1
        BY <1>g, <2>1, <3>1
      <4>3. Len(got') + ChunksIn(Tail(s)) = Len(got) + ChunksIn(s)
        BY <1>c, <1>g, <3>1, <4>2
      <4>4. \A m \in 1..Len(got') : got'[m].n = req.n
        BY <1>3, <1>g, <4>1, <4>2
      <4> QED BY <4>1, <4>3, <4>4
    <3>2. CASE f.type # "chunk"
      BY <1>3, <1>c, <2>1, <3>2
    <3> QED BY <3>1, <3>2
  <2>3. CASE Underway(link)
    <3>1. \A m \in 1..Len(Tail(s)) : Going(Tail(s)[m])
      BY <1>1, <2>3 DEF Underway, s
    <3>2. Underway(link)'
      BY <1>2, <1>q, <2>2, <2>3, <3>1 DEF Underway, Going, s
    <3> QED BY <1>0, <1>2, <2>1, <2>2, <3>2 DEF ClientInv, AnswersMatch
  <2>4. CASE Answered(link)
    <3>1. Len(s) > 1
      <4>1. ~Last(f)
        BY <1>4, <1>k DEF Going, Last, Finishes, Kinds
      <4> QED BY <1>1, <2>4, <4>1 DEF Answered, s
    <3>2. /\ \A m \in 1..Len(Tail(s)) - 1 : Going(Tail(s)[m])
          /\ Tail(s)[Len(Tail(s))] = s[Len(s)]
      BY <1>1, <2>4, <3>1 DEF Answered, s
    <3>3. Answered(link)'
      BY <1>1, <1>2, <1>q, <2>2, <2>4, <3>1, <3>2 DEF Answered, Going, Last, s
    <3> QED BY <1>0, <1>2, <2>1, <2>2, <3>3 DEF ClientInv, AnswersMatch
  <2> QED BY <1>3, <2>3, <2>4
<1>5. CASE ~Going(f)
  <2>1. Answered(link) /\ Len(s) = 1
    <3>1. 1 \in 1..Len(s) /\ ~Going(s[1])
      BY <1>1, <1>5
    <3>2. ~Underway(link)
      BY <3>1 DEF Underway, s
    <3>3. ~(1 \in 1..Len(s) - 1)
      BY <1>3, <3>1, <3>2 DEF Answered, s
    <3> QED BY <1>1, <1>3, <3>2, <3>3
  <2>2. Last(f) /\ Tail(s) = <<>>
    <3>1. Last(s[Len(s)])
      BY <2>1 DEF Answered, s
    <3>2. \A t \in Seq(Frames) : Len(t) = 0 => t = <<>>
      OBVIOUS
    <3>3. Len(Tail(s)) = 0
      BY <1>1, <2>1
    <3>4. s[Len(s)] = f
      BY <1>1, <2>1
    <3> QED BY <1>1, <3>1, <3>2, <3>3, <3>4
  <2>3. ~(f.type = "status" \/ f.type = "chunk")
    BY <2>2, <1>k DEF Last, Finishes, Kinds
  <2>4. step' \in {"ok", "failed"}
    BY <2>3 DEF f, s
  <2>5. Clean(link)'
    BY <1>2, <1>q, <2>1, <2>2 DEF Clean, Answered
  <2>6. step' = "ok" => Finishes(req.kind, f.type) /\ got' = Append(got, f)
    BY <2>3 DEF f, s
  <2>7. AnswersMatch'
    <3> SUFFICES ASSUME step' = "ok"
                 PROVE  /\ \A m \in 1..Len(got') : got'[m].n = req.n
                        /\ Len(got') = IF req.kind = "chunked" THEN Chunks + 1 ELSE 1
      BY <1>0, <1>1, <1>2, <2>6 DEF AnswersMatch
    <3>1. f.n = req.n
      BY <2>2 DEF Last
    <3>2. \A m \in 1..Len(got') : got'[m].n = req.n
      BY <1>3, <1>g, <2>6, <3>1
    <3>3. CASE req.kind = "chunked"
      <4>1. f.type = "end" /\ ChunksIn(Tail(s)) = 0
        BY <2>2, <2>6, <3>3, ChunksOfNone DEF Finishes
      <4>2. Len(got) + ChunksIn(s) = Chunks /\ ChunksIn(s) = 0
        BY <1>1, <1>c, <2>1, <4>1 DEF Answered, s
      <4> QED BY <1>g, <2>6, <3>2, <3>3, <4>2
    <3>4. CASE req.kind # "chunked"
      BY <1>3, <1>g, <2>6, <3>2, <3>4
    <3> QED BY <3>3, <3>4
  <2> QED BY <1>0, <1>2, <2>4, <2>5, <2>7 DEF ClientInv
<1> QED BY <1>4, <1>5

\* The hub's connection at the other end of the link in service.
LEMMA HubStep ==
    ASSUME Bounds, TypeInv, LinkInv, ClientInv, AnswersMatch,
           NEW i \in Links, i = link,
           \/ HubReads(i) \/ HubChunk(i) \/ HubAnswers(i) \/ HubReturns(i) \/ HubCloses(i)
    PROVE  ClientInv' /\ AnswersMatch'
<1> USE DEF connVars, clientVars, wireVars, hubVars, tickVars
<1>0. /\ link # 0 /\ i \notin shut /\ up \in [Links -> Seq(Request)]
      /\ down \in [Links -> Seq(Frames)] /\ down[i] \in Seq(Frames)
      /\ hpc \in [Links -> {"none", "idle", "handle", "return", "gone"}]
      /\ DOMAIN hreq = Links /\ sent \in [Links -> 0..Chunks]
      /\ terminal \in [Links -> BOOLEAN] /\ via \in [Numbers -> 0..MaxLinks]
  BY DEF Links, LinkInv, TypeInv, UpType, DownType, HubType, TickType, Bounds
<1>1. UNCHANGED <<link, req, step, got>>
  BY DEF HubReads, HubChunk, HubAnswers, HubReturns, HubCloses
<1>2. AnswersMatch'
  BY <1>1 DEF AnswersMatch
<1>c. step # "read" => Clean(i)
  BY <1>0 DEF ClientInv
<1>r. step = "read" => Unread(i) \/ Underway(i) \/ Answered(i)
  BY DEF ClientInv
\* It suffices to look at what is known of the link.
<1>s. SUFFICES /\ step # "read" => Clean(i)'
               /\ step = "read" => Unread(i)' \/ Underway(i)' \/ Answered(i)'
  BY <1>1, <1>2 DEF ClientInv, Clean, Quiet, Unread, Underway, Answered
<1>3. CASE HubReads(i)
  <2>1. step = "read" /\ Unread(i) /\ hpc[i] = "idle"
    BY <1>3, <1>c, <1>r DEF HubReads, Clean, Underway, Answered
  <2>2. /\ up[i] = <<req>> /\ down[i] = <<>> /\ got = <<>> /\ Quiet(i) /\ sent[i] = 0
    BY <2>1 DEF Unread, LinkInv
  <2>3. /\ up'[i] = <<>> /\ down'[i] = <<>> /\ hpc'[i] = "handle" /\ hreq'[i] = req
        /\ sent'[i] = 0 /\ (req.kind = "ping" => UNCHANGED <<terminal, via>>)
    BY <1>0, <1>3, <2>2 DEF HubReads, ParsedCommand
  <2>4. Len(got') + ChunksIn(down'[i]) = sent'[i]
    BY <1>1, <2>2, <2>3, ChunksOfNone
  <2>5. req.kind = "ping" => Quiet(i)'
    BY <2>1, <2>2, <2>3 DEF Quiet
  <2> QED BY <1>1, <2>1, <2>3, <2>4, <2>5 DEF Underway
<1>4. CASE hpc[i] = "handle" /\ ~HubReads(i)
  <2>1. /\ step = "read" /\ Underway(i) /\ hreq[i] = req /\ up[i] = <<>>
        /\ \A m \in 1..Len(down[i]) : Going(down[i][m])
        /\ Len(got) + ChunksIn(down[i]) = sent[i]
    BY <1>4, <1>c, <1>r DEF Clean, Unread, Underway, Answered
  <2>2. CASE HubChunk(i)
    <3> DEFINE f == Frame("chunk", req.n)
    <3>1. /\ f \in Frames /\ f.type = "chunk" /\ req.kind = "chunked"
          /\ down'[i] = Append(down[i], f) /\ sent'[i] = sent[i] + 1
          /\ UNCHANGED <<up, hpc, hreq, terminal, via>>
      <4>1. f \in Frames
        BY <1>4, <2>1 DEF Frame, Frames, TypeInv, HubType, Request
      <4> QED BY <1>0, <2>1, <2>2, <4>1 DEF HubChunk, Writes, Frame
    <3>2. Going(f)
      BY <3>1 DEF Going, Frame
    <3> HIDE DEF f
    <3>3. Len(got) + ChunksIn(down'[i]) = sent'[i]
      <4>1. ChunksIn(down'[i]) = ChunksIn(down[i]) + 1
        BY <1>0, <3>1, ChunksAppend
      <4>2. ChunksIn(down[i]) \in Nat /\ Len(got) \in Nat
        <5>1. ChunksIn(down[i]) \in Nat
          BY <1>0, ChunksFinite
        <5>2. Len(got) \in Nat
          BY DEF TypeInv, ReqType
        <5> QED BY <5>1, <5>2
      <4> QED BY <2>1, <3>1, <4>1, <4>2
    <3>4. \A m \in 1..Len(down'[i]) : Going(down'[i][m])
      <4>1. /\ Len(down'[i]) = Len(down[i]) + 1 /\ Len(down[i]) \in Nat
            /\ down'[i][Len(down'[i])] = f
            /\ \A m \in 1..Len(down[i]) : down'[i][m] = down[i][m]
        BY <1>0, <3>1
      <4>2. SUFFICES ASSUME NEW m \in 1..Len(down'[i])
                     PROVE  Going(down'[i][m])
        OBVIOUS
      <4>3. CASE m = Len(down'[i])
        BY <3>2, <4>1, <4>3
      <4>4. CASE m # Len(down'[i])
        <5>1. m \in 1..Len(down[i])
          BY <4>1, <4>4
        <5> QED BY <2>1, <4>1, <5>1
      <4> QED BY <4>3, <4>4
    <3>5. (\A m \in 1..Len(down[i]) : Going(down[i][m]))'
      BY <1>1, <3>4 DEF Going
    <3> QED BY <1>1, <2>1, <3>1, <3>3, <3>5 DEF Underway, Quiet
  <2>3. CASE HubAnswers(i)
    <3>1. PICK type \in {"pong", "ok", "end", "err"} :
             /\ type # "err" => Finishes(req.kind, type)
             /\ type = "end" => sent[i] = Chunks
             /\ Writes(i, Frame(type, req.n))
      BY <2>1, <2>3 DEF HubAnswers
    <3> DEFINE f == Frame(type, req.n)
    <3>2. /\ f \in Frames /\ f.type = type /\ f.n = req.n
          /\ down'[i] = Append(down[i], f)
      <4>1. f \in Frames
        BY <1>4, <2>1 DEF Frame, Frames, TypeInv, HubType, Request
      <4> QED BY <1>0, <3>1, <4>1 DEF Writes, Frame
    <3>3. Last(f) /\ f.type # "chunk"
      BY <3>1, <3>2 DEF Last
    <3> HIDE DEF f
    <3>4. /\ hpc'[i] = "return" /\ terminal'[i] = TRUE
          /\ UNCHANGED <<up, hreq, sent, via>>
      BY <1>0, <2>3 DEF HubAnswers
    <3>5. ChunksIn(down'[i]) = ChunksIn(down[i])
      BY <1>0, <3>2, <3>3, ChunksAppend
    <3>6. /\ Len(down'[i]) = Len(down[i]) + 1 /\ Len(down[i]) \in Nat
          /\ down'[i][Len(down'[i])] = f
          /\ \A m \in 1..Len(down[i]) : down'[i][m] = down[i][m]
      BY <1>0, <3>2
    <3>7. /\ \A m \in 1..Len(down'[i]) - 1 : Going(down'[i][m])
          /\ Last(down'[i][Len(down'[i])])
      BY <2>1, <3>3, <3>6
    <3>8. /\ (\A m \in 1..Len(down[i]) - 1 : Going(down[i][m]))'
          /\ Last(down[i][Len(down[i])])'
      BY <1>1, <3>7 DEF Going, Last
    <3>9. down'[i][Len(down'[i])].type = "end" => Len(got) + ChunksIn(down'[i]) = Chunks
      BY <2>1, <3>1, <3>2, <3>5, <3>6
    <3> QED BY <1>1, <2>1, <3>4, <3>6, <3>8, <3>9 DEF Answered, Quiet
  <2>4. CASE HubCloses(i)
    <3>1. hpc'[i] = "gone" /\ UNCHANGED <<up, down>>
      BY <1>0, <2>4 DEF HubCloses
    <3> QED BY <1>1, <2>1, <3>1 DEF Underway, Going
  <2> QED BY <1>4, <2>2, <2>3, <2>4 DEF HubReturns
<1>5. CASE hpc[i] # "handle" /\ ~HubReads(i)
  <2>1. /\ hpc'[i] \in {"idle", "gone"} /\ UNCHANGED <<up, down, terminal, via>>
        /\ hpc[i] # "gone"
    BY <1>0, <1>5 DEF HubChunk, HubAnswers, HubReturns, HubCloses
  <2>2. Quiet(i) => Quiet(i)'
    BY <2>1 DEF Quiet
  <2>3. CASE step # "read"
    BY <1>c, <2>1, <2>2, <2>3 DEF Clean
  <2>4. CASE step = "read" /\ Unread(i)
    BY <1>1, <2>1, <2>2, <2>4 DEF Unread
  <2>5. CASE step = "read" /\ Answered(i)
    BY <1>1, <2>1, <2>2, <2>5 DEF Answered, Going, Last
  <2>6. ~Underway(i)
    BY <1>5, <2>1 DEF Underway
  <2> QED BY <1>r, <2>3, <2>4, <2>5, <2>6
<1> QED BY <1>3, <1>4, <1>5

\* A ticker writes a STATUS only in the middle of an answer that allows it.
LEMMA TickerStep ==
    ASSUME Bounds, TypeInv, LinkInv, ClientInv, AnswersMatch, NEW n \in Numbers,
           TickerWrites(n), via[n] = link, link # 0, down' # down
    PROVE  ClientInv' /\ AnswersMatch'
<1> USE DEF TickerWrites, connVars, clientVars, hubVars
<1> DEFINE f == Frame("status", n)
<1>0. /\ link \in Links /\ link \notin shut /\ down \in [Links -> Seq(Frames)]
      /\ down[link] \in Seq(Frames) /\ ~terminal[link] /\ hpc[link] # "gone"
  BY DEF TypeInv, ConnType, LinkInv, DownType, Links
<1>1. /\ down'[link] = Append(down[link], f)
      /\ UNCHANGED <<link, req, step, got, up, hpc, hreq, sent, terminal, via>>
  BY <1>0 DEF Writes
<1>2. f \in Frames /\ f.type = "status"
  BY DEF Frame, Frames
<1> HIDE DEF f
<1>3. ~Quiet(link)
  BY <1>0 DEF Quiet
<1>4. /\ step = "read" /\ Underway(link) /\ hpc[link] = "handle" /\ req.kind # "ping"
  BY <1>0, <1>3 DEF ClientInv, Clean, Unread, Answered, Underway
<1>5. ChunksIn(down'[link]) = ChunksIn(down[link])
  BY <1>0, <1>1, <1>2, ChunksAppend
<1>6. \A m \in 1..Len(down'[link]) : Going(down'[link][m])
  <2>1. Going(f)
    BY <1>2, <1>4 DEF Going
  <2>2. \A m \in 1..Len(down[link]) : Going(down[link][m])
    BY <1>4 DEF Underway
  <2> QED BY <1>0, <1>1, <1>2, <2>1, <2>2
<1>7. (\A m \in 1..Len(down[link]) : Going(down[link][m]))'
  BY <1>1, <1>6 DEF Going
<1>8. Underway(link)'
  BY <1>1, <1>4, <1>5, <1>7 DEF Underway, Quiet
<1> QED BY <1>1, <1>4, <1>8 DEF ClientInv, AnswersMatch

\* What is known of the link in service survives every step.
LEMMA ClientStep ==
    ASSUME Bounds, TypeInv, TypeInv', LinkInv, LinkInv', ClientInv, AnswersMatch, [Next]_vars
    PROVE  ClientInv' /\ AnswersMatch'
<1> USE DEF connVars, clientVars, wireVars, hubVars, tickVars
<1>0. /\ link # 0 => link \in Links /\ link \notin shut
      /\ down \in [Links -> Seq(Frames)] /\ up \in [Links -> Seq(Request)]
      /\ hpc \in [Links -> {"none", "idle", "handle", "return", "gone"}]
      /\ DOMAIN hreq = Links /\ sent \in [Links -> 0..Chunks]
      /\ terminal \in [Links -> BOOLEAN] /\ via \in [Numbers -> 0..MaxLinks]
      /\ 0 \notin Links
  <2>1. link # 0 => link \in Links /\ link \notin shut
    BY DEF TypeInv, ConnType, LinkInv, Bounds, Links
  <2>2. 0 \notin Links
    BY DEF Links
  <2> QED BY <2>1, <2>2 DEF TypeInv, UpType, DownType, HubType, TickType
<1>1. CASE UNCHANGED vars
  BY <1>1, Untouched DEF vars
<1>2. CASE Begin BY <1>2, BeginStep
<1>3. CASE Send BY <1>3, SendStep
<1>4. CASE Read BY <1>4, ReadStep
<1>5. CASE ReadFails
  BY <1>5 DEF ReadFails, HandleError, ClientInv, AnswersMatch
<1>6. CASE DeadlinePasses
  BY <1>6, Untouched DEF DeadlinePasses
<1>7. ASSUME NEW n \in Numbers, TickerFires(n) \/ TickerWrites(n) \/ TickerEnds(n)
      PROVE  ClientInv' /\ AnswersMatch'
  <2>1. CASE TickerFires(n)
    BY <2>1, Untouched DEF TickerFires
  <2>2. CASE TickerEnds(n)
    <3>1. \A m \in Numbers : via'[m] # 0 => via'[m] = via[m]
      BY <1>0, <2>2 DEF TickerEnds
    <3> QED BY <2>2, <3>1, Untouched DEF TickerEnds
  <2>3. CASE TickerWrites(n)
    <3>1. CASE via[n] = link /\ link # 0 /\ down' # down
      BY <2>3, <3>1, TickerStep
    <3>2. CASE ~(via[n] = link /\ link # 0 /\ down' # down)
      <4>1. link # 0 => down'[link] = down[link]
        BY <1>0, <2>3, <3>2 DEF TickerWrites, Writes
      <4> QED BY <2>3, <4>1, Untouched DEF TickerWrites
    <3> QED BY <3>1, <3>2
  <2> QED BY <1>7, <2>1, <2>2, <2>3
<1>8. ASSUME NEW i \in Links, \/ HubReads(i) \/ HubChunk(i) \/ HubAnswers(i)
                              \/ HubReturns(i) \/ HubCloses(i)
      PROVE  ClientInv' /\ AnswersMatch'
  <2>1. CASE i = link
    BY <1>8, <2>1, HubStep
  <2>2. CASE i # link
    <3>1. UNCHANGED <<link, req, step, got>>
      BY <1>8 DEF HubReads, HubChunk, HubAnswers, HubReturns, HubCloses
    <3>2. ASSUME link # 0
          PROVE  /\ up'[link] = up[link] /\ down'[link] = down[link]
                 /\ hpc'[link] = hpc[link] /\ hreq'[link] = hreq[link]
                 /\ sent'[link] = sent[link] /\ terminal'[link] = terminal[link]
                 /\ \A n \in Numbers : via'[n] = link => via[n] = link
      <4>1. CASE HubReads(i) BY <4>1, <2>2, <3>2, <1>0 DEF HubReads
      <4>2. CASE HubChunk(i) BY <4>2, <2>2, <3>2, <1>0 DEF HubChunk, Writes
      <4>3. CASE HubAnswers(i) BY <4>3, <2>2, <3>2, <1>0 DEF HubAnswers, Writes
      <4>4. CASE HubReturns(i) BY <4>4, <2>2, <3>2, <1>0 DEF HubReturns
      <4>5. CASE HubCloses(i) BY <4>5, <2>2, <3>2, <1>0 DEF HubCloses
      <4> QED BY <1>8, <4>1, <4>2, <4>3, <4>4, <4>5
    <3> QED BY <3>1, <3>2, Untouched
  <2> QED BY <2>1, <2>2
<1>9. ASSUME NEW k \in Closers, Interrupt(k) \/ Close(k)
      PROVE  ClientInv' /\ AnswersMatch'
  <2>1. CASE Interrupt(k) \/ link = 0
    BY <1>9, <2>1, Untouched DEF Interrupt, Close
  <2>2. CASE Close(k) /\ link # 0
    BY <2>2 DEF Close, HandleError, Unlocked, ClientInv, AnswersMatch
  <2> QED BY <1>9, <2>1, <2>2
<1> QED BY <1>1, <1>2, <1>3, <1>4, <1>5, <1>6, <1>7, <1>8, <1>9 DEF Next
-----------------------------------------------------------------------------
\* Before the first request nothing is under way.
LEMMA InitInv ==
    ASSUME Bounds, Init
    PROVE  IInv
<1> USE DEF Init, Bounds
<1>1. TypeInv
  <2>1. <<>> \in Seq(Frames) /\ <<>> \in Seq(Request) /\ 0 \in 0..Chunks /\ 0 \in 0..MaxLinks
        /\ 0 \in 0..MaxTicks /\ 0 \in 0..MaxFaults
    OBVIOUS
  <2>2. ConnType BY <2>1 DEF ConnType
  <2>3. ReqType BY <2>1 DEF ReqType, Kinds
  <2>4. UpType /\ DownType BY <2>1 DEF UpType, DownType
  <2>5. HubType BY <2>1 DEF HubType
  <2>6. TickType /\ CountType BY <2>1 DEF TickType, CountType
  <2> QED BY <2>2, <2>3, <2>4, <2>5, <2>6 DEF TypeInv
<1>2. LinkInv
  BY DEF LinkInv, Links
<1>3. ClientInv /\ AnswersMatch
  BY DEF ClientInv, AnswersMatch
<1> QED BY <1>1, <1>2, <1>3 DEF IInv

\* IInv holds in every state.
THEOREM Inductive ==
    ASSUME Bounds
    PROVE  Spec => []IInv
<1>1. IInv /\ [Next]_vars => IInv'
  BY TypeStep, LinkStep, ClientStep DEF IInv
<1> QED BY InitInv, <1>1, PTL DEF Spec

\* Every variable has a value of its type.
THEOREM Typed ==
    ASSUME Bounds
    PROVE  Spec => []TypeOK
<1>1. IInv => TypeOK
  <2> SUFFICES ASSUME IInv
               PROVE  TypeOK
    OBVIOUS
  <2>1. \A i \in Links : \A m \in DOMAIN up[i] : up[i][m].n \in Numbers
    <3>1. ASSUME NEW s \in Seq(Request), NEW m \in DOMAIN s
          PROVE  s[m].n \in Numbers
      <4>1. s[m] \in Request
        OBVIOUS
      <4> QED BY <4>1 DEF Request
    <3> QED BY <3>1 DEF IInv, TypeInv, UpType
  <2>2. \A i \in Links : \A m \in DOMAIN down[i] : down[i][m].n \in Numbers
    <3>1. ASSUME NEW s \in Seq(Frames), NEW m \in DOMAIN s
          PROVE  s[m].n \in Numbers
      <4>1. s[m] \in Frames
        OBVIOUS
      <4> QED BY <4>1 DEF Frames
    <3> QED BY <3>1 DEF IInv, TypeInv, DownType
  <2> QED BY <2>1, <2>2 DEF IInv, TypeInv, TypeOK, ConnType, ReqType, HubType, CountType
<1> QED BY Inductive, <1>1, PTL

\* A request that succeeds has had its own answer and all of it, whatever the
\* requests before it on the same link ran into (execute, executeChunked).
THEOREM AnswersAreOwn ==
    ASSUME Bounds
    PROVE  Spec => []AnswersMatch
<1>1. IInv => AnswersMatch
  BY DEF IInv
<1> QED BY Inductive, <1>1, PTL

=============================================================================
