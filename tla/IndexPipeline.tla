---------------------------- MODULE IndexPipeline ----------------------------
(***************************************************************************)
(* The parse and store phase of a full index (src/src/extraction/index.ts, *)
(* indexAll): files are read in order and parsed side by side by a pool    *)
(* that keeps the promise of AbstractCalls (ParsePool is shown to), their  *)
(* results are committed in file order by one promise chain, flushOrdered, *)
(* on this thread or through the store writer's (src/src/extraction/       *)
(* store-writer.ts), and parses that lost their worker are tried twice     *)
(* more.  A parsed file has symbols; framework routes, languages, grammars *)
(* that are missing and the text of errors are left out.                   *)
(***************************************************************************)
EXTENDS Integers, Sequences, SequencesExt, FiniteSets

CONSTANTS
    Files,          \* number of files; they are 1..Files, in file order
    WindowSize,     \* windowSize
    WriterWindow,   \* STORE_WRITER_WINDOW
    Writers         \* whether there is a store writer: a set of Booleans

ASSUME PipelineAssumption ==
    /\ Files \in Nat /\ {WindowSize, WriterWindow} \subseteq Nat \ {0}
    /\ Writers \subseteq BOOLEAN

VARIABLES
    stage,      \* where indexAll is
    next,       \* the file its loop is at
    aborted,    \* aborted
    parse,      \* parse[f]: what the pool made of f's parse
    destroyed,  \* the pool was destroyed
    window,     \* files dispatched and not taken by the commit cursor, in order
    chain,      \* the file the flush chain is storing, or None
    posted,     \* that file was posted to the writer
    flushError, \* flushError # null
    row,        \* row[f]: what the database has of f
    order,      \* files in the order their symbols were first inserted
    tally,      \* tally[f]: how f was counted
    writer,     \* storeWriter
    sent,       \* bundles the writer has not applied, and with what row
    writerError,\* firstError # null
    pass,       \* the retry pass
    todo,       \* files it has still to try
    stillFailing

main   == <<stage, next, aborted>>
pool   == <<parse, destroyed>>
flush  == <<window, chain, posted, flushError>>
data   == <<row, order>>
store  == <<writer, sent, writerError>>
retry  == <<pass, todo, stillFailing>>
vars   == <<main, pool, flush, data, tally, store, retry>>

File == 1..Files
None == 0

\* A parse is answered, rejected because its worker was lost, or because the
\* pool has ended.
Answer == {"ok", "lost", "refused"}
Ended  == {"returned", "threw"}

TypeOK ==
    /\ stage \in {"feeding", "waiting", "oversize", "posted", "applying",
                  "retrying", "parsing", "closing", "destroying"} \cup Ended
    /\ next \in 1..(Files + 1) /\ aborted \in BOOLEAN
    /\ parse \in [File -> Answer \cup {"new", "open"}] /\ destroyed \in BOOLEAN
    /\ window \in Seq(File) /\ chain \in File \cup {None}
    /\ posted \in BOOLEAN /\ flushError \in BOOLEAN
    /\ row \in [File -> {"none", "marker", "data"}]
    /\ order \in Seq(File) /\ IsInjective(order)
    /\ tally \in [File -> {"open", "indexed", "skipped", "errored"}]
    /\ writer \in {"none", "open", "closed"} /\ writerError \in BOOLEAN
    /\ sent \in Seq(File \X {"marker", "data"})
    /\ pass \in 0..2 /\ todo \subseteq File /\ stillFailing \subseteq File

Settled(f) == parse[f] \in Answer

-----------------------------------------------------------------------------
(* The pool, from the outside: an open parse is answered at some time.     *)

PoolAnswers(f) ==
    /\ parse[f] = "open"
    /\ \E a \in Answer \ {"refused"} : parse' = [parse EXCEPT ![f] = a]
    /\ UNCHANGED <<main, destroyed, flush, data, tally, store, retry>>

\* It has used up its crash budget: whatever was queued is refused.
PoolRefuses ==
    /\ \E fs \in SUBSET {f \in File : parse[f] = "open"} \ {{}} :
          parse' = [f \in File |-> IF f \in fs THEN "refused" ELSE parse[f]]
    /\ UNCHANGED <<main, destroyed, flush, data, tally, store, retry>>

-----------------------------------------------------------------------------
(* storeResult().                                                          *)

\* The rows and the order of first insertion after f is stored as r.
Inserted(f, r) ==
    /\ row' = [row EXCEPT ![f] = r]
    /\ order' = IF r = "data" /\ ~Contains(order, f) THEN Append(order, f) ELSE order

\* A parsed file is stored with its symbols and counted as indexed, a failed
\* one as a marker row that carries its error.
RowOf(f) == IF parse[f] = "ok" THEN "data" ELSE "marker"

Count(f, r) == tally' = [tally EXCEPT ![f] =
                  IF r = "data" THEN "indexed" ELSE "errored"]

\* It is posted to the writer, unless that has failed or gone.
Post(f, r) ==
    /\ writer = "open" /\ ~writerError
    /\ sent' = Append(sent, <<f, r>>)

\* waitBelow(): the writer has caught up, or never will.
CaughtUp == writer # "open" \/ writerError \/ Len(sent) < WriterWindow

\* A statement fails here, or the writer has failed or gone before.
StoreFails == writer # "open" \/ writerError

WriterApplies ==
    /\ sent # << >> /\ sent' = Tail(sent)
    /\ \/ Inserted(Head(sent)[1], Head(sent)[2]) /\ UNCHANGED writerError
       \/ writerError' = TRUE /\ UNCHANGED data
    /\ UNCHANGED <<main, pool, flush, tally, writer, retry>>

\* Its thread dies, and what it has not applied with it.
WriterDies ==
    /\ writer = "open" /\ writerError' = TRUE /\ sent' = << >>
    /\ UNCHANGED <<main, pool, flush, data, tally, writer, retry>>

-----------------------------------------------------------------------------
(* The flush chain: one callback at a time, each as far as it can go.      *)

\* The chain takes whatever parse is done.
FlushBeginsAnywhere ==
    /\ chain = None /\ ~aborted /\ ~flushError
    /\ \E i \in DOMAIN window :
          /\ Settled(window[i]) /\ chain' = window[i]
          /\ window' = RemoveAt(window, i)
    /\ UNCHANGED <<main, pool, posted, flushError, data, tally, store, retry>>

FlushBegins ==
    /\ chain = None /\ ~aborted /\ ~flushError
    /\ window # << >> /\ Settled(Head(window))
    /\ chain' = Head(window) /\ window' = Tail(window)
    /\ UNCHANGED <<main, pool, posted, flushError, data, tally, store, retry>>

FlushPosts ==
    /\ chain # None /\ ~posted /\ Post(chain, RowOf(chain)) /\ posted' = TRUE
    /\ UNCHANGED <<main, pool, window, chain, flushError, data, tally, writer,
                   writerError, retry>>

\* The file is stored, or posted and the writer not too far behind; the
\* callback goes on to the next one that is done, and does not look at
\* aborted again.
FlushStores ==
    /\ chain # None
    /\ \/ posted /\ CaughtUp /\ UNCHANGED data
       \/ writer = "none" /\ Inserted(chain, RowOf(chain))
    /\ Count(chain, RowOf(chain)) /\ posted' = FALSE
    /\ IF window # << >> /\ Settled(Head(window))
       THEN chain' = Head(window) /\ window' = Tail(window)
       ELSE chain' = None /\ UNCHANGED window
    /\ UNCHANGED <<main, pool, flushError, store, retry>>

FlushFails ==
    /\ chain # None /\ ~posted /\ StoreFails
    /\ chain' = None /\ flushError' = TRUE
    /\ UNCHANGED <<main, pool, window, posted, data, tally, store, retry>>

-----------------------------------------------------------------------------
(* The loop over the files.                                                *)

\* A file that is gone, no source or cannot be read is only counted.
PassOver ==
    /\ stage = "feeding" /\ next <= Files /\ next' = next + 1
    /\ \E c \in {"skipped", "errored"} : tally' = [tally EXCEPT ![next] = c]
    /\ UNCHANGED <<pool, stage, aborted, flush, data, store, retry>>

\* An oversize file is stored by the loop itself, beside the chain.
Oversize ==
    /\ stage = "feeding" /\ next <= Files /\ stage' = "oversize"
    /\ UNCHANGED <<pool, next, aborted, flush, data, tally, store, retry>>

OversizePosted ==
    /\ stage = "oversize" /\ stage' = "posted" /\ Post(next, "marker")
    /\ UNCHANGED <<pool, next, aborted, flush, data, tally, writer, writerError, retry>>

OversizeStored ==
    /\ \/ stage = "posted" /\ CaughtUp /\ UNCHANGED data
       \/ stage = "oversize" /\ writer = "none" /\ Inserted(next, "marker")
    /\ stage' = "feeding" /\ next' = next + 1
    /\ tally' = [tally EXCEPT ![next] = "skipped"]
    /\ UNCHANGED <<pool, aborted, flush, store, retry>>

\* A throw out of the loop: nobody ends the pool or the writer.
OversizeFails ==
    /\ stage = "oversize" /\ StoreFails /\ stage' = "threw"
    /\ UNCHANGED <<pool, next, aborted, flush, data, tally, store, retry>>

\* parseFile(): the pool is asked.
Request(f) ==
    parse[f] # "open" /\ parse' = [parse EXCEPT ![f] = "open"] /\ UNCHANGED destroyed

\* feed(): the parse is requested, then the loop waits for room.
Feed ==
    /\ stage = "feeding" /\ next <= Files /\ next' = next + 1
    /\ Request(next) /\ window' = Append(window, next)
    /\ stage' = IF Len(window') >= WindowSize /\ ~flushError
                THEN "waiting" ELSE "feeding"
    /\ UNCHANGED <<aborted, chain, posted, flushError, data, tally, store, retry>>

\* A wait that bounds only the parses that are out.
RoomInFlight ==
    /\ stage = "waiting"
    /\ Cardinality({f \in File : parse[f] = "open"}) < WindowSize
    /\ stage' = "feeding"
    /\ UNCHANGED <<pool, next, aborted, flush, data, tally, store, retry>>

\* A wait that knows nothing of a store that has failed.
RoomStuck ==
    /\ stage = "waiting" /\ Len(window) < WindowSize
    /\ stage' = "feeding"
    /\ UNCHANGED <<pool, next, aborted, flush, data, tally, store, retry>>

\* The wait ends when the cursor has moved on, or never will.
Room ==
    /\ stage = "waiting" /\ (Len(window) < WindowSize \/ flushError)
    /\ stage' = "feeding"
    /\ UNCHANGED <<pool, next, aborted, flush, data, tally, store, retry>>

\* The caller's signal, met between two files: nothing is waited for.
Abort ==
    /\ stage = "feeding" /\ next <= Files
    /\ aborted' = TRUE /\ stage' = "closing"
    /\ UNCHANGED <<pool, next, flush, data, tally, store, retry>>

\* Every parse has settled and the chain has come to its end.
Drain ==
    /\ stage = "feeding" /\ next > Files /\ chain = None
    /\ \A f \in File : parse[f] # "open"
    /\ flushError \/ window = << >>
    /\ stage' = IF flushError THEN "closing" ELSE "applying"
    /\ UNCHANGED <<pool, next, aborted, flush, data, tally, store, retry>>

-----------------------------------------------------------------------------
(* The writer is drained and closed, then the retries.                     *)

\* The parses whose worker died or hung.
Retryable == {f \in File : parse[f] = "lost"}

\* The writer has applied everything (or there is none) and is closed.
WriterDrained ==
    /\ stage = "applying" /\ sent = << >> /\ ~writerError
    /\ writer' = IF writer = "open" THEN "closed" ELSE writer
    /\ stage' = "retrying"
    /\ UNCHANGED <<pool, next, aborted, flush, data, tally, sent, writerError, retry>>

\* drain() rejects: the writer is closed, and the error thrown past the pool.
WriterDrainFails ==
    /\ stage = "applying" /\ writerError
    /\ writer' = "closed" /\ sent' = << >> /\ stage' = "threw"
    /\ UNCHANGED <<pool, next, aborted, flush, data, tally, writerError, retry>>

\* Passes as long as something fails.
BeginPassForEver ==
    /\ stage = "retrying" /\ todo = {}
    /\ pass' = pass + 1
    /\ todo' = (IF pass = 0 THEN Retryable ELSE stillFailing) /\ todo' # {}
    /\ stillFailing' = {}
    /\ UNCHANGED <<main, pool, flush, data, tally, store>>

\* A retry pass on fresh workers: over the parses that were lost, then over
\* those that failed again, without their comments.
BeginPass ==
    /\ stage = "retrying" /\ todo = {} /\ pass < 2
    /\ pass' = pass + 1
    /\ todo' = (IF pass = 0 THEN Retryable ELSE stillFailing) /\ todo' # {}
    /\ stillFailing' = {}
    /\ UNCHANGED <<main, pool, flush, data, tally, store>>

RetryFile == CHOOSE f \in todo : \A g \in todo : f <= g

\* The file is read again, which may fail, and parsed.
Retry ==
    /\ stage = "retrying" /\ todo # {}
    /\ \/ /\ Request(RetryFile) /\ stage' = "parsing" /\ UNCHANGED todo
       \/ /\ todo' = todo \ {RetryFile} /\ UNCHANGED <<pool, stage>>
    /\ UNCHANGED <<next, aborted, flush, data, tally, store, pass, stillFailing>>

\* A retry that stores and leaves the file counted as an error.
RetriedKeepsCount ==
    /\ stage = "parsing" /\ Settled(RetryFile)
    /\ stage' = "retrying" /\ todo' = todo \ {RetryFile}
    /\ IF parse[RetryFile] = "ok"
       THEN /\ Inserted(RetryFile, "data")
            /\ UNCHANGED <<stillFailing, tally>>
       ELSE /\ stillFailing' = stillFailing \cup {RetryFile}
            /\ UNCHANGED <<data, tally>>
    /\ UNCHANGED <<pool, next, aborted, flush, store, pass>>

\* A parse that works replaces the marker and moves the file's count.
Retried ==
    /\ stage = "parsing" /\ Settled(RetryFile)
    /\ stage' = "retrying" /\ todo' = todo \ {RetryFile}
    /\ IF parse[RetryFile] = "ok"
       THEN /\ Inserted(RetryFile, "data") /\ Count(RetryFile, "data")
            /\ UNCHANGED stillFailing
       ELSE /\ stillFailing' = stillFailing \cup {RetryFile}
            /\ UNCHANGED <<data, tally>>
    /\ UNCHANGED <<pool, next, aborted, flush, store, pass>>

\* The store, or the stat before it, throws past the pool.
RetryThrows ==
    /\ stage = "parsing" /\ parse[RetryFile] = "ok" /\ stage' = "threw"
    /\ UNCHANGED <<pool, next, aborted, flush, data, tally, store, retry>>

\* Nothing is left to retry, or the signal ends the passes.
Finish ==
    /\ stage = "retrying" /\ stage' = "closing"
    /\ UNCHANGED <<pool, next, aborted, flush, data, tally, store, retry>>

-----------------------------------------------------------------------------
(* The end.                                                                *)

\* A writer that is still open is closed, within a limit of time, and the
\* pool destroyed.
Close ==
    /\ stage = "closing" /\ stage' = "destroying"
    /\ writer' = (IF writer = "open" THEN "closed" ELSE writer) /\ sent' = << >>
    /\ destroyed' = TRUE
    /\ parse' = [f \in File |-> IF parse[f] = "open" THEN "refused" ELSE parse[f]]
    /\ UNCHANGED <<next, aborted, flush, data, tally, writerError, retry>>

\* destroy() has waited for its threads; a store's error is thrown now.
End ==
    /\ stage = "destroying"
    /\ stage' = IF flushError /\ ~aborted THEN "threw" ELSE "returned"
    /\ UNCHANGED <<pool, next, aborted, flush, data, tally, store, retry>>

-----------------------------------------------------------------------------

Init ==
    /\ stage = "feeding" /\ next = 1 /\ aborted = FALSE
    /\ parse = [f \in File |-> "new"] /\ destroyed = FALSE
    /\ window = << >> /\ chain = None /\ posted = FALSE /\ flushError = FALSE
    /\ row = [f \in File |-> "none"] /\ order = << >>
    /\ tally = [f \in File |-> "open"]
    /\ writer \in {IF b THEN "open" ELSE "none" : b \in Writers}
    /\ sent = << >> /\ writerError = FALSE
    /\ pass = 0 /\ todo = {} /\ stillFailing = {}

Flush == FlushBegins \/ FlushPosts \/ FlushStores \/ FlushFails

\* indexAll's own steps, but for the signal.
Main ==
    \/ PassOver \/ Oversize \/ OversizePosted \/ OversizeStored \/ OversizeFails
    \/ Feed \/ Room \/ Drain \/ WriterDrained \/ WriterDrainFails
    \/ BeginPass \/ Retry \/ Retried \/ RetryThrows \/ Finish \/ Close \/ End

Next ==
    \/ Main \/ Abort \/ Flush \/ WriterApplies \/ WriterDies \/ PoolRefuses
    \/ \E f \in File : PoolAnswers(f)

\* The promises of the index go on, the writer works off what it was sent,
\* and the pool answers every parse (AbstractCalls).
Spec ==
    /\ Init /\ [][Next]_vars
    /\ WF_vars(Main) /\ WF_vars(Flush) /\ WF_vars(WriterApplies)
    /\ \A f \in File : WF_vars(PoolAnswers(f))

-----------------------------------------------------------------------------
(* Properties.                                                             *)

\* "we COMMIT results in original file order, not parse-completion order":
\* symbols of the first pass are inserted in file order, whichever parse ends
\* first and whoever stores them.
CommitInOrder ==
    pass = 0 => \A i, k \in DOMAIN order : i < k => order[i] < order[k]

\* "this bound is load-bearing for memory": files that wait for their turn
\* fit the window, also while the file at the cursor is slow.
WindowKept == flushError \/ Len(window) <= WindowSize

\* When the index returns of its own accord every file is counted, and
\* counted as indexed exactly if the database has its symbols, through
\* retries, the writer's failures and files that were never parsed.
EveryFileAccounted ==
    stage = "returned" /\ ~aborted =>
        \A f \in File : /\ tally[f] # "open"
                       /\ tally[f] = "indexed" <=> row[f] = "data"

\* The stages before the writer is drained, and after the last retry.
Early == {"feeding", "waiting", "oversize", "posted", "applying"}
Late  == {"closing", "destroying", "returned"}

\* What each stage of indexAll may rely on.
StagesAgree ==
    /\ stage \in {"oversize", "posted"} => next <= Files
    /\ stage \in {"feeding", "oversize", "posted"} =>
          flushError \/ Len(window) < WindowSize
    /\ stage = "applying" =>
          next > Files /\ chain = None /\ window = << >> /\ ~flushError
    /\ stage \in Early => pass = 0
    /\ stage = "parsing" => todo # {}
    /\ pass = 0 => todo = {}
    /\ stage = "returned" => aborted \/ ~flushError
    /\ posted => chain # None
    /\ writer = "none" => sent = << >>

\* f's symbols are in the database or on their way to it.
Committed(f) == Contains(order, f) \/ Contains(sent, <<f, "data">>)

\* In the first pass: what the database has comes before what the writer was
\* sent, that before the file of the chain, then the window, then the rest.
FilesAreInLine ==
    /\ \A i \in DOMAIN order, k \in DOMAIN sent :
          sent[k][2] = "data" => order[i] < sent[k][1]
    /\ \A i, k \in DOMAIN sent :
          i < k /\ sent[i][2] = "data" /\ sent[k][2] = "data" =>
              sent[i][1] < sent[k][1]
    /\ \A f \in File : Committed(f) =>
          /\ f < next /\ \A i \in DOMAIN window : f < window[i]
          /\ chain # None => f < chain \/ (posted /\ f = chain)
    /\ chain # None => chain < next /\ \A i \in DOMAIN window : chain < window[i]
    /\ \A i \in DOMAIN window : window[i] < next
    /\ \A i, k \in DOMAIN window : i < k => window[i] < window[k]

\* Until the writer is drained: a file the loop has passed is counted or about
\* to be, and its count agrees with its parse and with what was stored or sent.
FileAgrees(f) ==
    /\ f >= next => tally[f] = "open" /\ parse[f] = "new"
    /\ f < next => tally[f] # "open" \/ f = chain \/ Contains(window, f) \/ flushError
    /\ row[f] = "data" => parse[f] = "ok"
    /\ tally[f] \in {"skipped", "errored"} => parse[f] \notin {"ok", "open"}
    /\ tally[f] = "indexed" \/ (posted /\ f = chain /\ parse[f] = "ok") =>
          row[f] = "data" \/ Contains(sent, <<f, "data">>) \/ writerError

\* A bundle the writer was sent is what the file's parse, now over, calls for.
BundleAgrees(f, r) ==
    /\ parse[f] # "open" /\ r = RowOf(f)
    /\ f < next \/ (stage = "posted" /\ f = next)

CountsAgree ==
    /\ \A f \in File : FileAgrees(f)
    /\ \A f \in File, r \in {"marker", "data"} :
          Contains(sent, <<f, r>>) => BundleAgrees(f, r)
    /\ chain # None => Settled(chain)

\* Every file is counted as what the database has of it, for good.
AllAccounted ==
    /\ chain = None /\ window = << >> /\ sent = << >>
    /\ \A f \in File : tally[f] # "open" /\ (tally[f] = "indexed" <=> row[f] = "data")

\* The state of the index agrees with itself, at every stage of it.
PipelineInv ==
    /\ TypeOK /\ StagesAgree /\ WindowKept
    /\ pass = 0 => CommitInOrder /\ FilesAreInLine
    /\ stage \in Early => CountsAgree
    /\ stage \in {"retrying", "parsing"}
          \/ (stage \in Late /\ ~aborted /\ ~flushError) => AllAccounted

\* The index ends, with parses that fail, a window that stays full behind a
\* slow file, a writer that dies and a store that fails.
IndexEnds == <>(stage \in Ended)
=============================================================================
