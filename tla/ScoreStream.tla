---------------------------- MODULE ScoreStream ----------------------------
(***************************************************************************)
(* The stream of an AI score: frames numbered from 1, the cache of         *)
(* finished scores per bid and dimension, from which a later stream is     *)
(* replayed, the cache of the frames sent per review, from which a broken  *)
(* stream is resumed, and the flush of the first when the text of the bid  *)
(* or the settings of the LLM change.                                      *)
(*                                                                         *)
(* One bid and one dimension, so one key of the score cache; its reviews   *)
(* are those of several experts.  A stream has a first frame (meta), those *)
(* of one run of the LLM, and a last one: LastFrame is their number, the   *)
(* content of a frame is the run it came from.  Texts and settings are     *)
(* version numbers.  A client may lose what was sent last, and the server  *)
(* goes on sending until it notices.  Every failure of Redis is passed     *)
(* over.                                                                   *)
(***************************************************************************)
EXTENDS Integers, SequencesExt

CONSTANTS
    Clients,        \* windows of experts, each with one stream at a time
    Flaky,          \* those whose connection may break
    Reviews,
    ReviewOf,       \* the review a client is scoring
    LastFrame,
    MaxLost,        \* bound: frames lost with a connection
    MaxRuns,        \* bound: streams that are started
    MaxChanges,     \* bound: changes of the text or the settings
    MaxOutages      \* bound: times Redis stops answering

ASSUME StreamAssumption ==
    /\ Flaky \subseteq Clients
    /\ ReviewOf \in [Clients -> Reviews]
    /\ LastFrame \in Nat /\ LastFrame >= 3
    /\ MaxLost \in Nat /\ MaxRuns \in Nat /\ MaxChanges \in Nat /\ MaxOutages \in Nat

VARIABLES
    redis,          \* whether Redis answers
    outages,        \* how often it has stopped
    now,            \* the present text of the bid and settings of the LLM
    changing,       \* of these, what was written and has not been flushed
    scores,         \* score cache: the frames of a run, or << >>
    frames,         \* per review: the frames sent within the last minutes
    conn,           \* per client: the generator on the server
    linked,         \* clients that receive what is sent
    seen,           \* per client: the frames received in this attempt
    runs,           \* streams started so far
    basis,          \* history: per run, the text and the settings it used
    resumed,        \* history: clients whose attempt was resumed
    gap,            \* history: reviews with frames that frames does not hold
    overlap,        \* history: runs under way when the scores were flushed
    dirty           \* history: a change was not followed by a flush

history == <<basis, resumed, gap, overlap, dirty>>
streamVars == <<redis, outages, now, changing, scores, frames, conn, linked, seen, runs, history>>

-----------------------------------------------------------------------------
Runs == 1..MaxRuns
NoRun == 0
Kinds == {"text", "settings"}

Frame(k, n) == [id |-> k, run |-> n, last |-> k = LastFrame]
Frames == [id: Nat, run: Runs \cup {NoRun}, last: BOOLEAN]

(* The frames of a complete run, after the meta frame. *)
Body(n) == [i \in 1..(LastFrame - 1) |-> Frame(i + 1, n)]

Off == [at |-> "off"]

(* next: the number of the next frame; kept: whether the run is to be      *)
(* saved; queue: frames to replay.                                         *)
Connection ==
    {Off}
        \cup [at: {"lookup", "retrieve", "ask", "save"}, run: Runs]
        \cup [at: {"live"}, run: Runs, next: 2..LastFrame, kept: BOOLEAN]
        \cup [at: {"replay"}, run: Runs, queue: Seq(Frames)]

StreamTypeOK ==
    /\ redis \in BOOLEAN /\ outages \in 0..MaxOutages /\ dirty \in BOOLEAN
    /\ now \in [Kinds -> 0..MaxChanges] /\ changing \subseteq Kinds
    /\ runs \in 0..MaxRuns
    /\ scores \in Seq(Frames)
    /\ frames \in [Reviews -> Seq(Frames)]
    /\ conn \in [Clients -> Connection]
    /\ linked \subseteq Clients /\ resumed \subseteq Clients
    /\ seen \in [Clients -> Seq(Frames)]
    /\ basis \in [Runs -> [Kinds -> 0..MaxChanges]]
    /\ gap \subseteq Reviews
    /\ overlap \subseteq Runs

StreamInit ==
    /\ redis = TRUE /\ outages = 0 /\ dirty = FALSE
    /\ now = [k \in Kinds |-> 0] /\ changing = {}
    /\ runs = 0
    /\ scores = << >>
    /\ frames = [v \in Reviews |-> << >>]
    /\ conn = [c \in Clients |-> Off]
    /\ linked = {} /\ resumed = {}
    /\ seen = [c \in Clients |-> << >>]
    /\ basis = [n \in Runs |-> now]
    /\ gap = {}
    /\ overlap = {}

-----------------------------------------------------------------------------
(* The generator on the server *)

To(c, going) == conn' = [conn EXCEPT ![c] = going]

(* _cache_sse_frame *)
Cache(v, f) ==
    IF redis THEN frames' = [frames EXCEPT ![v] = Append(@, f)] /\ UNCHANGED gap
    ELSE gap' = gap \cup {v} /\ UNCHANGED frames

(* A frame is cached, and sent to whoever still receives it. *)
Emit(c, f) ==
    /\ Cache(ReviewOf[c], f)
    /\ seen' = IF c \in linked THEN [seen EXCEPT ![c] = Append(@, f)] ELSE seen
    /\ UNCHANGED <<redis, outages, now, changing, linked, runs, resumed, overlap, dirty>>

(* A new request begins with the meta frame. *)
Start(c) ==
    /\ conn[c] = Off
    /\ runs < MaxRuns
    /\ runs' = runs + 1
    /\ To(c, [at |-> "lookup", run |-> runs + 1])
    /\ Cache(ReviewOf[c], Frame(1, NoRun))
    /\ linked' = linked \cup {c}
    /\ seen' = [seen EXCEPT ![c] = <<Frame(1, NoRun)>>]
    /\ resumed' = resumed \ {c}
    /\ UNCHANGED <<redis, outages, now, changing, scores, basis, overlap, dirty>>

(* Mutant: a cache without frames is taken for a hit.                      *)
CachedAlways == redis

(* _load_score_frames *)
Cached == redis /\ scores # << >>

Lookup(c) ==
    /\ conn[c].at = "lookup"
    /\ LET n == conn[c].run
       IN  To(c, IF Cached THEN [at |-> "replay", run |-> n, queue |-> scores]
                 ELSE [at |-> "live", run |-> n, next |-> 2, kept |-> TRUE])
    /\ UNCHANGED <<redis, outages, now, changing, scores, frames, linked, seen, runs,
                   basis, resumed, gap, overlap, dirty>>

Replay(c) ==
    /\ conn[c].at = "replay"
    /\ LET q == conn[c].queue
       IN  IF q = << >>
           THEN /\ To(c, Off)
                /\ UNCHANGED <<redis, outages, now, changing, frames, linked, seen, runs,
                               resumed, gap, overlap, dirty>>
           ELSE /\ Emit(c, Head(q))
                /\ To(c, [conn[c] EXCEPT !.queue = Tail(q)])
    /\ UNCHANGED <<scores, basis>>

(* After the first frame of a run comes the retrieval, after the last one  *)
(* the score is saved, if it is one.                                       *)
AfterFrame(q) ==
    CASE q.next = 2 -> [at |-> "retrieve", run |-> q.run]
      [] q.next = LastFrame -> IF q.kept THEN [at |-> "save", run |-> q.run] ELSE Off
      [] OTHER -> [q EXCEPT !.next = @ + 1]

Live(c) ==
    /\ conn[c].at = "live"
    /\ LET q == conn[c]
       IN  /\ Emit(c, Frame(q.next, q.run))
           /\ To(c, AfterFrame(q))
    /\ UNCHANGED <<scores, basis>>

(* The chunks are read; without any there is no score (NO_EVIDENCE).       *)
Retrieve(c) ==
    /\ conn[c].at = "retrieve"
    /\ LET n == conn[c].run
       IN  /\ basis' = [basis EXCEPT ![n]["text"] = now["text"]]
           /\ \/ To(c, [at |-> "ask", run |-> n])
              \/ To(c, [at |-> "live", run |-> n, next |-> 3, kept |-> FALSE])
    /\ UNCHANGED <<redis, outages, now, changing, scores, frames, linked, seen, runs,
                   resumed, gap, overlap, dirty>>

(* The LLM is called with the settings of the moment, or its breaker is    *)
(* open (LLM_DOWN).                                                        *)
AskLLM(c) ==
    /\ conn[c].at = "ask"
    /\ LET n == conn[c].run
       IN  /\ basis' = [basis EXCEPT ![n]["settings"] = now["settings"]]
           /\ \E kept \in BOOLEAN :
                To(c, [at |-> "live", run |-> n, next |-> 3, kept |-> kept])
    /\ UNCHANGED <<redis, outages, now, changing, scores, frames, linked, seen, runs,
                   resumed, gap, overlap, dirty>>

(* _save_score_frames: DEL and RPUSH in one transaction.                   *)
Saved(n) == Body(n)

Save(c) ==
    /\ conn[c].at = "save"
    /\ scores' = IF redis THEN Saved(conn[c].run) ELSE scores
    /\ To(c, Off)
    /\ UNCHANGED <<redis, outages, now, changing, frames, linked, seen, runs,
                   basis, resumed, gap, overlap, dirty>>

(* An exception ends the stream with an error frame, which is not cached.  *)
Break(c) ==
    /\ conn[c].at \in {"lookup", "retrieve", "ask", "live"}
    /\ seen' = IF c \in linked
               THEN [seen EXCEPT ![c] = Append(@, [id |-> Len(@) + 1, run |-> NoRun, last |-> TRUE])]
               ELSE seen
    /\ To(c, Off)
    /\ UNCHANGED <<redis, outages, now, changing, scores, frames, linked, runs,
                   basis, resumed, gap, overlap, dirty>>

(* The server notices that nobody receives the stream.                     *)
Cancel(c) ==
    /\ conn[c] # Off /\ c \notin linked
    /\ To(c, Off)
    /\ UNCHANGED <<redis, outages, now, changing, scores, frames, linked, seen, runs,
                   basis, resumed, gap, overlap, dirty>>

-----------------------------------------------------------------------------
(* The client *)

(* The connection breaks; what was sent last may not have arrived.         *)
Disconnect(c, lost) ==
    /\ c \in linked \cap Flaky
    /\ lost <= Len(seen[c])
    /\ linked' = linked \ {c}
    /\ seen' = [seen EXCEPT ![c] = SubSeq(@, 1, Len(@) - lost)]
    /\ UNCHANGED <<redis, outages, now, changing, scores, frames, conn, runs,
                   basis, resumed, gap, overlap, dirty>>

(* Mutant: the next frame is taken for received.                           *)
AfterNext(v, k) == SelectSeq(frames[v], LAMBDA f : f.id > k + 1)

After(v, k) ==
    LET upTo[i \in 0..Len(frames[v])] ==
            IF i = 0 THEN << >>
            ELSE IF frames[v][i].id > k THEN Append(upTo[i - 1], frames[v][i])
            ELSE upTo[i - 1]
    IN  upTo[Len(frames[v])]

(* A stream request with a Last-Event-ID gets what is cached, or a reset.  *)
Resume(c) ==
    /\ c \notin linked
    /\ seen[c] # << >> /\ ~Last(seen[c]).last
    /\ LET v == ReviewOf[c]
       IN  seen' = [seen EXCEPT ![c] =
                        IF redis /\ frames[v] # << >> THEN @ \o After(v, Last(@).id) ELSE << >>]
    /\ resumed' = resumed \cup {c}
    /\ UNCHANGED <<redis, outages, now, changing, scores, frames, conn, linked, runs,
                   basis, gap, overlap, dirty>>

-----------------------------------------------------------------------------
(* Redis, and what flushes the scores *)

RedisTurns ==
    /\ ~redis \/ outages < MaxOutages
    /\ redis' = ~redis
    /\ outages' = IF redis THEN outages + 1 ELSE outages
    /\ UNCHANGED <<now, changing, scores, frames, conn, linked, seen, runs,
                   basis, resumed, gap, overlap, dirty>>

Expire ==
    /\ scores # << >> /\ scores' = << >>
    /\ UNCHANGED <<redis, outages, now, changing, frames, conn, linked, seen, runs,
                   basis, resumed, gap, overlap, dirty>>

(* The frames of a review expire; those of a stream that goes on after so  *)
(* long a pause are then without their first ones.                         *)
ExpireSent(v) ==
    /\ frames[v] # << >>
    /\ frames' = [frames EXCEPT ![v] = << >>]
    /\ gap' = IF \E c \in Clients : ReviewOf[c] = v /\ conn[c] # Off THEN gap \cup {v} ELSE gap
    /\ UNCHANGED <<redis, outages, now, changing, scores, conn, linked, seen, runs,
                   basis, resumed, overlap, dirty>>

UnderWay == {conn[c].run : c \in {d \in Clients : conn[d].at \in {"ask", "live", "save"}}}

(* What a score depends on is written: document_ingest has the chunks of a *)
(* bid that is parsed again, set_configs the settings.                     *)
Change(k) ==
    /\ k \notin changing
    /\ now["text"] + now["settings"] < MaxChanges
    /\ now' = [now EXCEPT ![k] = @ + 1]
    /\ changing' = changing \cup {k}
    /\ UNCHANGED <<redis, outages, scores, frames, conn, linked, seen, runs, history>>

(* Mutant: the scores are only flushed for a new text.                     *)
FlushedForText(k) == IF redis /\ k = "text" THEN << >> ELSE scores

Flushed(k) == IF redis THEN << >> ELSE scores

(* flush_score_cache, which a failure of Redis leaves undone.              *)
Flush(k) ==
    /\ k \in changing
    /\ changing' = changing \ {k}
    /\ scores' = Flushed(k)
    /\ overlap' = IF redis THEN overlap \cup UnderWay ELSE overlap
    /\ dirty' = ~redis
    /\ UNCHANGED <<redis, outages, now, frames, conn, linked, seen, runs, basis, resumed, gap>>

(* The worker, or the request of the administrator, ends before it: the    *)
(* process is gone, or the settings were refused after some were written.  *)
FlushNever(k) ==
    /\ k \in changing
    /\ changing' = changing \ {k}
    /\ dirty' = TRUE
    /\ UNCHANGED <<redis, outages, now, scores, frames, conn, linked, seen, runs,
                   basis, resumed, gap, overlap>>

-----------------------------------------------------------------------------
Generator(c) ==
    \/ Lookup(c) \/ Replay(c) \/ Live(c) \/ Retrieve(c) \/ AskLLM(c) \/ Save(c)
    \/ Break(c) \/ Cancel(c)

Client(c) == Start(c) \/ (\E lost \in 0..MaxLost : Disconnect(c, lost)) \/ Resume(c)

StreamNext ==
    \/ \E c \in Clients : Generator(c) \/ Client(c)
    \/ RedisTurns \/ Expire \/ (\E v \in Reviews : ExpireSent(v))
    \/ \E k \in Kinds : Change(k) \/ Flush(k) \/ FlushNever(k)

StreamSpec == StreamInit /\ [][StreamNext]_streamVars

-----------------------------------------------------------------------------
(* The score cache holds the frames of one complete run in their order, or *)
(* none: runs that overlap replace each other's score.                     *)
CacheIsOneRun == scores = << >> \/ \E n \in Runs : scores = Body(n)

(* A client that did not have to resume has the frames 1, 2, ... of one    *)
(* run (its own or the cached one) without a gap, and if the server ended  *)
(* the stream while it listened, the last of them is a last frame.         *)
StreamIsOneRun ==
    \A c \in Clients \ resumed :
        /\ \A i \in 1..Len(seen[c]) :
            /\ seen[c][i].id = i
            /\ \A j \in 2..i : seen[c][i].run \in {seen[c][j].run, NoRun}
        /\ c \in linked /\ conn[c] = Off => seen[c] # << >> /\ Last(seen[c]).last

(* Resuming leaves no gap: every frame continues those before it, unless   *)
(* Redis failed or the frames expired while the review was being scored.   *)
GaplessView ==
    \A c \in Clients : ReviewOf[c] \notin gap =>
        \A i \in 1..Len(seen[c]) :
            seen[c][i].id = 1 \/ \E j \in 1..(i - 1) : seen[c][j].id = seen[c][i].id - 1

(* A score in the cache comes from the present text and settings, unless a *)
(* change is still under way or was never flushed, or the run was under    *)
(* way when the scores were flushed and saved after it.                    *)
FreshUnlessOverlap ==
    \A n \in Runs : (scores = Body(n) /\ changing = {} /\ ~dirty /\ n \notin overlap) =>
        basis[n] = now

(* What the cache holds is whole, and fresh but for that overlap.          *)
CacheIsRight == CacheIsOneRun /\ FreshUnlessOverlap
=============================================================================
