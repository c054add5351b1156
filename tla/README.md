# A verification development for ai_module

`ai_module` is the analysis service of this repository (`src/ai_module`).  It
receives an architecture diagram, as a file over HTTP or as a message of a
RabbitMQ queue, asks a large language model (LLM) for a report on it, validates
the report, and answers.  The modules here model its control: the queue worker
and its life next to the broker, the analyses that run in it, what happens to the
contents of a request on its way through them, and all of it together.  TLC
checks the models on small instances; TLAPS proves the safety properties of the
worker, of the process's life, of the analyses, of the contents and of the
composition, and the refinements between them, for every value of the constants.

All paths below are relative to `src/ai_module/src/ai_module/` unless they begin
with `src/`.


## 1. The system: inventory

### Components

| Component | Source | State | Operations |
|---|---|---|---|
| Queue consumer | `worker/consumer.py` | the subscription (queue, consumer tag); the local variables of each `_handle_message` coroutine | `start`, `stop`, `_handle_message` |
| Result publisher | `worker/publisher.py` | the attempt of each publication | `publish_success`, `publish_error`, `_publish` (3 attempts with back-off) |
| RabbitMQ adapter | `adapters/rabbitmq_adapter.py` | the robust connection | `connect` (retries for ever), `get_channel` (sets the prefetch count), `disconnect`, `is_connected` |
| Application lifespan | `main.py` `lifespan` | adapter, consumer and worker task; the health flags | startup, shutdown |
| Analysis pipeline | `core/pipeline.py` | the variables of the retry loop: attempt, prompt, last invalid reply, timeout flag | `run_pipeline` and its `_step_*` stages |
| LLM adapters | `adapters/base.py`, `gemini_adapter.py`, `openai_adapter.py`, `factory.py` | none that lasts | `analyze`, `get_llm_adapter` |
| HTTP route, exception handlers | `api/routes/analyze.py`, `main.py` | none of their own | `POST /analyze`, five handlers |
| File preprocessor | `core/preprocessor.py` | none | `preprocess`: size, magic bytes, rendering, downsampling |
| Report validation | `core/report_validator.py`, `models/report.py` | none | `validate_and_normalize`, `detect_conflict` |
| Error classification | `core/exceptions.py` | none | exceptions, codes, `classify_validation_error` |
| Metrics | `core/metrics.py`, `api/routes/metrics.py` | the counters | increments all over the code, `GET /metrics` |
| Queue messages | `models/queue.py` | none | validation of requests and responses |
| Health | `core/state.py`, `api/routes/health.py` | two flags and a reference to the adapter | the setters, `GET /health` |
| Prompt builder, settings, logging | `core/prompt_builder.py`, `core/settings.py`, `core/logger.py` | configuration | pure text and output |
| Broker deployment | `src/infra/` | configuration of another program | |

### How they interact

One operating-system process runs one event loop.  The lifespan opens the
connection and creates a task for `MessageConsumer.start()`.  From then on
aio-pika starts a coroutine of `_handle_message` for each delivery; the coroutine
validates the request, awaits `run_pipeline`, awaits `_publish` (each attempt on
a channel of its own), and settles the delivery.  HTTP requests run `run_pipeline`
in coroutines of the same loop.  The coroutines share the counters
(`core/metrics.py`) and the connection, and interleave at every `await`.  The
broker holds the requests; it takes a delivery back when its channel ends before
it is settled.

### What is hard, and what makes each part correct

* **Consumer, publisher, broker**: a crash or a lost connection between the
  publication of an answer and its acknowledgement; coroutines that outlive the
  channel of their delivery while the request is in work again; a confirmation
  that is lost; the last publish attempt that fails; a prefetch window filled by
  a delivery nobody will settle; shutdown that does not wait.  Correct means: no
  request is lost, none is judged wrongly, duplicates have a cause, the settled
  stay settled, every request is eventually settled, the counters tell the truth.
* **Pipeline**: state carried from one attempt to later ones (the last invalid
  reply, the timeout flag), replies that normalisation cannot walk through,
  analyses that interleave on shared counters.  Correct means: the prompt quotes
  the right reply, the answer follows from the replies, the loop ends, the
  counters add up.
* **Lifespan and health**: a shutdown that meets the startup at any of its
  awaits, a `start()` that fails unnoticed, a `connect()` that never raises,
  globals that survive their application.  Correct means: nothing of the worker
  outlives a shutdown, startup and shutdown end, `/health` tells of a connection
  that exists.
* **Preprocessor, messages and reports**: the boundaries of sizes, page counts
  and texts, the order of checks and repairs.  Correct means: the two flows differ
  in what they accept where they are known to and nowhere else, what is accepted
  can be worked with to the end, the LLM sees whole pages, a reply becomes a report
  exactly if it can be repaired, repair loses nothing that was right, and a prompt
  that asks for a correction names a defect that there is where it can.
* **Worker and analyses together**: redelivery on one side multiplies calls on
  the other; a cancelled coroutine takes its analysis with it, one that outlives
  its channel does not.  Correct means: answers and acknowledgements come from
  analyses of their own, calls are bounded, the counters of both sides balance.
* **Adapter**: channels that nobody closes.

`PROJECT.json` lists every hazard at its line, with the property that watches it
or the reason why none does.


## 2. The modules

| Module | What it is |
|---|---|
| `Worker` | the queue worker: consumer, publisher, connection, process, broker |
| `AtLeastOnce` | what the worker promises to those who use the two queues |
| `WorkerAbstraction` | the refinement mapping from `Worker` to `AtLeastOnce` |
| `WorkerProofs` | type correctness, safety and the refinement of `AtLeastOnce`, proved |
| `WorkerDuplicateProofs`, `WorkerCounterProofs`, `WorkerLoadProofs` | the bounds on duplicate answers, on the counters, on deliveries and coroutines, proved |
| `Pipeline` | the analyses of one process, from file to answer |
| `Analysis` | what one analysis promises to whoever asked for it |
| `PipelineAbstraction` | the refinement mapping from `Pipeline` to `Analysis` |
| `PipelineProofs` | type correctness, safety, the counters and the refinement of `Analysis`, proved |
| `Lifespan` | the life of a process, await by await, the settings, the globals and `/health`; it implements the life that `Worker` gives its process |
| `LifespanProofs` | type correctness, safety and the refinement of `Worker`, proved |
| `Intake` | operators: which messages and forms are accepted, with which fields |
| `Preprocessor` | operators: from a file to the picture the LLM sees |
| `Report` | operators: from a reply to a report or to the next prompt |
| `Contents` | the way of the contents of one request through `Intake`, `Preprocessor` and `Report` |
| `ContentsProofs` | what the operators of these compute, and the properties of the contents, proved |
| `System` | `Worker` with the analyses of `Pipeline` in the place of its one step |
| `SystemProofs` | that the composition implements both its parts, and its safety, proved |
| `MCWorker`, `MCPipeline`, `MCContents`, `MCSystem` | the instances for TLC |

How they hang together:

    AtLeastOnce <-- Worker <-- Lifespan              (a life without messages)
                      ^
                      |  ImplementsWorker
                    System = Worker x Pipeline --> Analysis
                                        |
                          Preprocess    |  PipelineAbstractsFiles
                    Contents = Intake + Preprocessor + Report

`Worker` composes the consumer, the publisher, the adapter's connection and the
lifespan in one module because they are one state machine in the code: each of
their steps is an `await` of the same coroutines, and every interesting behaviour
crosses their boundaries.  It takes one step for startup, subscription and
shutdown, and one for an analysis; `Lifespan` opens the first, `System` the
second, and each is checked to implement `Worker`, so that what holds of `Worker`
holds of them.

### `Worker` and the code

A handler is a record for one `_handle_message` coroutine, at the await it
stands at (`stage`).  `nth` is its delivery: the broker accepts a settlement only
for the current delivery (`Holds`), since an ack on a channel that is gone is
void.

| Action | Code |
|---|---|
| `Submit`, `Deliver` | external: the requesting system and the broker's push, at most `PrefetchCount` unsettled deliveries (`adapters/rabbitmq_adapter.py:120`) |
| `Receive` | steps 1 to 3 of `_handle_message`: JSON, schema, base64 |
| `Nack` | `message.nack(requeue=False)` |
| `PipelineReturns`, `PipelineRaises`, `PipelineRaisesBlank` | `run_pipeline` and the four except clauses; the last builds a `QueueErrorResponse` that refuses a blank message |
| `PublishConfirmed`, `PublishUnconfirmed`, `PublishRaises` | an attempt of `_publish`; `AttemptFailed` is its except clause |
| `Ack`, `SettleRaises` | `message.ack()`, and ack or nack on a channel that is gone |
| `ConnectionLost`, `Reconnect` | the robust connection |
| `AckTimeoutClose`, `AckTimeoutSlow` | the broker's acknowledgement timeout: for a delivery nobody will settle, and for one that is still in work |
| `Boot`, `StartConsumer`, `StartConsumerRaises` | startup and the task of `start()` |
| `StopConsumer`, `Disconnect`, `Exit`, `Crash` | shutdown in its three awaited steps, and death |

When a channel ends, the client library may or may not cancel the coroutines it
started for it: `SomeHandlersCancelled` allows any subset to go on.  An
unroutable answer is confirmed and dropped (`ResultsBound`), because `_publish`
does not treat returned messages.

### `Pipeline` and the code

`run[a]` holds the local variables of `run_pipeline` and `_step_retry_loop` for
analysis `a`; `replies[a]` is the history of its calls, which the code does not
keep and the properties speak about.  A reply is named by the number of the
attempt that received it, so that a prompt "quotes reply 2".  The stretch from
the arrival of the file to the first call has no `await` and is one action
(`Start`, `Reject`, `AdapterRaises`).  Each outcome of `asyncio.wait_for(analyze)`
and of validation is an action, and does all that the code does up to the next
call: `Continue` is the next round or, with `requests_error`, the end of the loop.
`HttpError` and `QueueError` are the handlers of `main.py` and the except
clauses of `consumer.py`.


### `Lifespan` and the code

`phase` is how far `lifespan()` has come, `task` how far the task of
`consumer.start()` has.  `connect()` is two actions, the attempt that succeeds,
with everything up to `create_task`, and the one that fails and sleeps; `start()`
is the opening of its channel and the rest.  `Shutdown` is the code behind the
`yield` up to its first await, which depends on where the startup is:
`stop()` awaits only if it has a consumer tag, the task is cancelled only if it is
not done.  `Exit` ends the process, or leaves the globals to a second
application in it, as the tests do.  `broker` and `link` are external.  Whether
the library calls a connection under restoration closed is left open:
`QueueConnectedIsLive` holds either way.

The mapping to `Worker` calls the process running from the connection to the end
of the consumer; a shutdown is `StopConsumer` there when the consumer is stopped,
and its disturbance counts from then on.

### `Intake`, `Preprocessor`, `Report`, `Contents` and the code

`Contents` is a chain of five steps (`ReceiveMessage` or `ReceiveForm`, `Open`,
`BuildPrompt`, `Reply`, `Complete`), each of which applies the operators of one
module to any input of its set and forgets the one before, so that TLC meets
each input on each step once.  Texts are lengths with and without the whitespace
around them; a file is a size, magic bytes, and the sizes and soundness of its
pages; a reply is its lines and a JSON document with the facts that normalisation
and the schema tell apart.  `Report!SchemaErrors` yields the words that the
locations in pydantic's message consist of, and `Quotable` those that the input it
quotes may add: `classify_validation_error` looks at nothing else.

Reference definitions stand beside the translated ones: `Repairable` (what a
reply needs) beside `ValidateAndNormalize` (the order of strip, parse, normalise,
cut, validate), `MeetsContract`, `RepairIsFaithful`, `ShowsThePages`, `FitsAndTells`,
`AcceptedIsUsable`, `DifferAsKnown` (where the queue and HTTP judge the same request
differently), `Defective` (what is wrong with a reply).  `PipelineAbstractsFiles`
ties `Preprocessor` to the three facts about a file that are all `Pipeline` knows of
it; the third, that it is readable, takes that it opens, that the pages shown are
sound, and that these, one below the other, are not too large for Pillow
(`preprocessor.py:149-154`).

### `System` and the code

The variables are those of `Worker` and of `Pipeline`, an analysis for each
delivery, and `abandoned`, a count the code does not keep: coroutines that ended
between their analysis and its outcome.  Joint steps are what the code does
without an await in between: `Receive` (validation and the way to the first call),
`Return` and `Raise` (the end of `run_pipeline()` and what `_handle_message` makes
of it).  A coroutine is cancelled only where it awaits, and its analysis with it.
The process serves throughout; lives and deaths are for `Worker` and `Lifespan`.


## 3. The runs

Every run's configuration is named after it (`Worker_safety.cfg` is
`worker_safety`).

| Run | Instance | What it shows |
|---|---|---|
| `worker_safety` | a good and a malformed request, prefetch 2, 2 attempts, 2 disturbances of any kind | types; no acknowledged request without an answer; only malformed requests rejected, and never answered; at most one answer more than disturbances; counters never ahead of the work; settled requests stay settled; `AtLeastOnce` is implemented |
| `worker_liveness` | 3 requests, one malformed, prefetch 1, fair | whatever is lost, every request sent is settled if the process stays up and the broker enforces its acknowledgement timeout; the coroutines are bounded by the prefetch count and the lost channels |
| `pipeline_flows` | an analysis of the queue and one of HTTP, 3 attempts, every kind of file and reply, fair | prompts, answers and success counters follow from the replies; each analysis that began ends; both implement `Analysis` |
| `lifespan_safety` | any settings, a cap of 3 on the delay, 3 disturbances, fair | `/health` tells of the connection that exists; nothing outlives the shutdown; startup and shutdown end; the life is one of `Worker` |
| `contents_data` | messages, files, replies and contexts around every limit | what is accepted is usable; the flows differ in whitespace, unknown fields, names and encodings of files only; the LLM sees the first pages, whole, in order and undistorted; exactly the repairable replies become reports, which keep the contract and from which nothing right is lost; a defect that has an instruction of its own gets one of these |
| `system_composition` | a good and a malformed request, prefetch 2, 2 publish attempts, 2 calls, 1 outage, fair | the counters of worker and pipeline balance; answers and acknowledgements come from analyses of their own; redelivery multiplies calls only with a cause; the composition is a `Worker`, and a fair one |

The other six runs are the findings of section 6: each checks one statement of
the repository's documents or comments and shows that the code does otherwise.

### Bounds, and why they are enough

* **Requests.**  Handlers of different requests meet only in the prefetch
  window, the counters and the connection.  Two requests meet in all of them;
  liveness takes three through a window of one.
* **Disturbances** (`MaxDisturbances`) are lost connections, slow analyses,
  crashes, shutdowns, failures of `start()`, failed or unconfirmed publications
  and blank exceptions.  Two suffice for the crossing hazards: a coroutine outlives
  its channel, and then a second loss strikes while its request is in work again;
  an answer published twice because its confirmation was lost, and a third time
  because its acknowledgement was.  The theorems hold for any number.  `System`
  takes one: it suffices for a coroutine that goes on beside the next delivery
  of its request, for an exception that leaves the handler and for the timeout that
  brings the request back; two are in the reach of `Worker`, which `System`
  implements.
* **Attempts.**  2 publish attempts distinguish the last from the others; 3, the
  code's value, occurs in the runs of the findings.
* **`MaxRetries`** is 3 in `pipeline_flows`: enough for an invalid reply, another
  kind of failure, and a call after both.  The default of `core/settings.py:50` is 2,
  which `System` takes.
* **Contents.**  The limits are small (a summary of 2, a context of 2, 2 pages, a
  side of 5, 144 pixels) and the inputs lie on both sides of each.  The sides of
  images run up to more than twice the limit in both directions, so that every aspect
  with whole numbers of that size occurs, those that round a side to nothing and
  those that Pillow refuses too.  Documents have up to one page more than are
  rendered, among them pages that are too large for Pillow only together and one
  that is so by itself; sections up to two elements, one of them wrong in any way,
  and risks up to two references; replies any four lines.
* The counters of `Worker` and the numbers of deliveries are not bounded: the
  number of disturbances bounds them, since each redelivery costs one.  In
  `Lifespan` a crash before the process serves is free, and so is a broker that
  comes and goes while nothing is connected: its state is finite all the same.
* The passing runs of `Worker` set `ResultsBound`; `worker_unbound` shows what
  happens without it.  RabbitMQ enforces an acknowledgement timeout by default,
  and so do the runs.
* Deadlock is not checked: an instance ends when its requests are settled or its
  analyses have ended.

### Fairness

`Worker!Fairness` asks for weak fairness of

* the step of some handler of each request: the event loop runs every coroutine
  that can run, and every awaited call ends: `asyncio.wait_for` bounds the LLM,
  and a publication ends or raises;
* `Deliver`: the broker pushes while the window is open;
* `Reconnect`: `connect_robust` retries for ever;
* `AckTimeoutClose`: the broker's timeout for acknowledgements, if it has one;
* `StartConsumer`, `Disconnect`, `Exit`: what startup and shutdown began goes on.

Nobody promises that requests are sent, that the process is started, stopped or
killed, or that anything goes wrong.  `EventuallySettled` therefore has the premise
that the process eventually stays up.  `Pipeline!Fairness` asks that a call ends
(`wait_for`) and that the answer is given (the event loop), and not that an
analysis is cancelled or begins.

`Worker` assumes that the pipeline as a whole ends.  `System` does not: its fairness
is that of a step of some coroutine of each request, where a step is one call of
the LLM, and `ImplementsWorker` is the whole of `Worker!FairSpec`, so that the
assumption follows from the bounded loop.

`Lifespan!Fairness`: the loop of `connect()` and the robust connection go on, the
awaits of `start()`, `cancel()` and the task end, and the shutdown is not
suspended.  That a `cancel()` on a lost connection ever raises is not assumed, and
so `StartupEnds` and `ShutdownEnds` have the premise that the broker eventually
stays reachable.


## 4. What is proved

All theorems hold for every finite set of requests, any prefetch count, any number of
attempts and of disturbances; for every finite set of analyses and every
`LLM_MAX_RETRIES`, 0 included; for any cap on the delay of `connect()`; for texts, documents, pictures, replies
and reports of every size and every value of the limits.  They assume
only the named assumptions of the modules (`MessagesAssumption`, ...), which TLC
evaluates in the runs.

### The worker

* `WorkerProofs!TypeCorrect`: `Spec => []TypeOK`.  `TypeOK` alone is not
  inductive: publishing indexes `answers` by the handler's answer, so `TypeInv`
  adds that a handler that publishes has chosen one (`AnswerChosen`).
* `WorkerProofs!VerdictsSound`, `NothingLost`: only malformed requests are
  rejected and never answered; if the output queue is bound, an acknowledged
  request has an answer.  The inductive invariant `SafetyInv` adds
  `StageJustified`: a handler about to nack has a malformed request, one beyond
  validation has a good one, and one about to ack has its answer in the queue.
  That is the publish-then-ack order, carried by the coroutine across redelivery.
  `NothingLost` and `Implements` have `ResultsBound` as a hypothesis; without it
  they are false (`worker_unbound`).
* `WorkerProofs!SettledStays`: a settled request stays settled.  Each step that
  writes `request` either requires it to be unsettled, or touches unacked requests
  only; that an ack of an old delivery is void (`Holds`) does the rest.
* `WorkerProofs!Implements`: the worker implements `AtLeastOnce`.  Requeueing is
  invisible, publishing is `Give`, acknowledging is `Settle`, for which
  `StageJustified` supplies the guard.
* `WorkerDuplicateProofs!DuplicatesBounded`: a request has at most one answer
  more than there were disturbances.  The proof is an account.  What a request
  may yet be answered is its copies in the queue, its coroutines that have not
  published, and a delivery that is due.  Two steps make a delivery due without
  being disturbances, the acknowledgement timeout and the disconnection of a
  shutdown; each was paid for by an earlier disturbance, the one that stranded a
  delivery and the one that began the shutdown, and until it comes this is a
  credit (`StrandCredit`, `StopCredit`).  The account, that needs and credits
  never exceed one plus the disturbances, is inductive with `LinkInv`: only an
  open connection has unsettled deliveries.
* `WorkerCounterProofs!CountersSound`: the counters tell no more outcomes than
  requests consumed.  The property is an inequality between counters and numbers of
  coroutines; the lemmas say how a step of one coroutine, or the cancellation of
  any set of them, changes the number of those at a stage.
* `WorkerLoadProofs!RedeliveriesHaveACause`, `LoadBounded`: a request is delivered
  at most once more than there were disturbances, and at most a prefetch window of
  coroutines is at work for each disturbance and one.  Both continue the account:
  `Slack` is the disturbances less the credits, deliveries made and due never exceed
  it by more than one (`DeliveryInv`), and the coroutines that outlived their channel
  never exceed a window for each unit of it (`LoadInv`).  `LoadInv` needs that a
  delivery has one coroutine at most (`OneCoroutineEach`).

### The life of the process

* `LifespanProofs!LifespanTypes`, `HealthIsLive`, `ShutdownLeavesNothing`: the
  state keeps its shape, `/health` tells of the connection that exists, and nothing
  of the worker outlives a shutdown.  One inductive invariant, `LifeInv`, says for
  each phase which flags are set and how far the task may have come: what makes the
  three true is what a shutdown can meet at each await of the startup.
* `LifespanProofs!LifespanImplements`: a life in single awaits is a life of the
  process of `Worker`, that is, each step is one of `Worker`'s steps for startup,
  connection and shutdown, or invisible to it.

### The analyses

* `PipelineProofs!TypeCorrect`, `PromptCorrect`, `AnswersJustified`: at most
  `MaxRetries` attempts are made; the prompt of a call quotes the latest invalid
  reply of its own analysis; the answer follows from the replies.  The
  invariant relates the variables of the loop to the history of replies: the
  attempt is its length, the last invalid reply and the timeout flag are in it,
  and an exception is what the history justifies.
* `PipelineProofs!CallsCapped`: no analysis makes more than `MaxRetries` calls.
* `PipelineProofs!CountersAddUp`: the counters of successes and retries are the
  successful analyses and the calls before their last, for any interleaving.  A
  success adds one analysis and its earlier calls to these sets, which are disjoint
  from what was there; every other step leaves the sets as they are.
* `PipelineProofs!AnalysesKeepTheirPromise`: `Pipeline` implements `Analysis`.  The
  steps of the loop are calls, the end of each flow is the one answer, and
  `IInv` supplies its reason; `NoAnswerYet` says that there was none before.

### The contents

`ContentsProofs` is mostly lemmas about operators; the theorems
`StepsMakeWhatTheyShould`, which says which input each stage worked on and what it
made of it (`ContentsInv`), and `InputsAreTyped` carry them to the states of
`Contents`.

The library's induction theorems take an operator as a parameter, which the provers
cannot instantiate.  The lemma `Induction` takes a set of numbers instead, and
follows from the library's fact that the finite subsets of a set are well-founded
(`LeastElement`).  With it, what a recursive function computes is proved for inputs of
every length: first that the function exists and satisfies its equation, then what
follows from it.

* `AcceptedUsable`, `FlowsCompared`: by what stripping does to each kind of field
  (`StrippedText`, `FlowsOnFields`).  `FlowsCompared` is about requests that can be
  sent to both flows (`IsForm`), with the default limits, which are equal.
* `FactsDecide`, `FirstPagesShown`: `FileDecided` follows the order of the checks;
  `OffsetsUnfold`, `PastedInOrder` and `WidestPage` say of a stitched picture of any
  number of pages where each page is, and that none is wider, and `PastedIsSmaller`
  that one which Pillow opens consists of pages that it opens.
* `PictureWithinLimit`: the arithmetic of downsampling.  `ShorterSideFits` shows
  that the shorter side, whichever way it is rounded, is less than one pixel off what
  the aspect would make it, also where that is less than a pixel, and one at least;
  `Thumbnails` and `EveryPictureFits` carry it to both orientations.
* `AcceptedIffRepairable`: the order strip, parse, normalise, cut, validate against
  the one condition `Repairable`.  `ParsesIffRepairable` is about the lines;
  `NormalItem` and `NormalSection` show that normalisation makes clean exactly what is
  usable and leaves alone what is clean; `SchemaWords` that clean is what the schema
  accepts.
* `AnswersMeetContract`, `NothingRightIsLost`: a repaired report is clean
  (`ReportRepaired`), the guardrails take away the references to other names and
  leave all the others, in their order (`OnlyKept`, `Guarded`), and what is clean and
  has no references to other names passes both unchanged (`RepairIsDone`).
  `OnlyKept` is an induction over the list with `Counting`, which says how many
  entries of its beginning remain.
* `DefectsAddressed`: a reply of any size, wrong in any number of ways, with any of
  the words that its message may quote.  `DefectsAreTold` shows that normalisation
  and truncation hide none of the defects from the schema, so that the word of each
  is in the message whatever else is, and `InstructionOf` that
  `classify_validation_error` then has nothing general to say.

The assumptions are on the inputs: `ArrivalsAssumption`, `UploadsAssumption` and
`RepliesAssumption` say that they have the types of the modules, and the second that
a file that is no document has one picture at most.  Besides there are those on the
limits: they are positive (`PixelsAssumption` asks only for a number), and
`PDF_MAX_PAGES` is 10 at most (`core/settings.py:47`).

### The composition

`SystemProofs` instantiates the proofs of the parts and shows that each step of
`System` is a step of `Worker` and a step of `Pipeline`, or leaves the part alone:
`CompositionIsWorker`, `CompositionIsPipeline`.  With that the invariants of the
parts hold in it (`PartsInv`), and so does all that was proved of them.
`JointInv` (`JointInductive`) relates the parts: each coroutine has an analysis
of its own, named by its request and its delivery, which is at the place where the
coroutine stands; deliveries to come have none.  It rests on the fact of
`WorkerLoadProofs` that one delivery never has two coroutines.  From it follow

* `SettlementsMatch`: the delivery that is acknowledged is one whose own analysis
  ended, and a malformed request reaches no analysis;
* `BooksBalance`: the counters of both parts balance.  `Balanced` is the property
  itself, with its sets named; each of the joint steps moves both sides alike;
* `AnswersHaveASource`: each kind of answer in the queue comes from an analysis of
  that request.  `Sourced` counts an answer about to be published as published, so
  that the attempt whose confirmation is lost is the only one that adds a copy
  without an analysis, and that one is a disturbance;
* `CostsBounded`: at most `MaxRetries` calls for each delivery of a request
  (`CallsCapped`), and at most one delivery more than disturbances
  (`RedeliveriesHaveACause`);
* `WorkerPromisesKept`, `AnalysisPromisesKept`: what was proved of each part, the
  refinements of `AtLeastOnce` and `Analysis` included, holds of the whole.


## 5. What is only model-checked

* `EventuallySettled`, `AnalysisEnds`, `StartupEnds`, `ShutdownEnds`, and the
  fairness in `System!ImplementsWorker` (its safety is `CompositionIsWorker`): liveness
  under fairness is out of the prover's reach.

Every other property of a passing run is stated by a theorem.


## 6. Findings

Each is a run that TLC must find violated.

1. `worker_unpublished`: when every publish attempt failed, the exception leaves
   `_handle_message` and the delivery is neither acked nor nacked.  With the
   prefetch count of 1 the worker is idle until the broker's timeout.
   `src/specs/spec.md:123` (ERR-005) asks that the failure be surfaced so that the
   message can be retried.
2. `worker_unbound`: nothing in the repository binds the output queue to the
   exchange the publisher declares, so unless somebody else does, answers are
   confirmed, dropped and their requests acknowledged.
3. `pipeline_alien`: a reply that is JSON but not the expected shape raises an
   `AttributeError` or `TypeError` that the loop does not catch: there is no retry.
4. `pipeline_requests`: an HTTP request that exhausts its attempts is counted
   twice.
5. `lifespan_degraded`: the task of `consumer.start()` is created and never looked
   at; when it fails, the process serves without consuming and `/health` answers
   200.  The except clause in `main.py:96-102` is not reached, and neither is it when
   the broker is away, since `connect()` never raises (its docstring says it does).
6. `contents_instruction`: `classify_validation_error` looks for words anywhere in
   the message, so that a wrong element of a section, or a risk's
   `affected_components`, gets the instruction that the components are missing.

Others were met without a run of their own:

* A rejected message goes nowhere: `worker/consumer.py:10` says that it flows to the
  dead-letter queue, and no queue is declared with one.
* An exception whose text is blank makes the except clause itself raise
  (`PipelineRaisesBlank`): no answer, no settlement, until the broker's timeout.
  `System!OutcomesBalance` has to count such coroutines (`abandoned`).
* `last_was_timeout` is never reset, so one timeout followed by invalid replies is
  reported as a timeout (`core/exceptions.py:90` says "after all retries").
  `AnswerFollowsReplies` states what is: some call timed out.
* An attempt whose confirmation was lost is repeated, so that one consumption may
  publish two results (`src/specs/spec.md:397`, AC-006, speaks of one);
  `DuplicatesHaveACause` bounds them.
* The retries of analyses that fail are not in `ai_llm_retries_total`, which
  `src/ai_module/README.md:199` calls the total; `SuccessesAddUp` states what is.
* The correction prompt has neither the user prompt nor the context of the
  request (`Report!CorrectionPrompt`).
* HTTP and the queue judge some requests differently.  HTTP strips nothing, ignores
  unknown fields, and looks neither at the name nor at the bytes of a file before
  the pipeline does (`api/routes/analyze.py:21-31`).  It accepts an empty name, as
  `src/ai_module/tests/unit/test_analyze_required_inputs.py:108-114` expects of it,
  and the queue refuses one (`models/queue.py:127-133`).  `FlowsDifferAsKnown` states
  these differences and that there are no others.  The limit on the context is a
  setting for HTTP and written into the model of the queue; the property is about
  limits that are equal, as they are by default.
* `PDF_MAX_PAGES` may be set up to 10 (`core/settings.py:47`), where
  `src/specs/spec.md:144` (PER-003) says that analysis must be limited to the first
  three pages; 3 is the default.  The theorems hold for all ten.
* An empty file raises `UnsupportedFormatError`, where the docstring of
  `_step_preprocess` (`core/pipeline.py:267-268`) says `InvalidInputError`.


## 7. What is not modelled

* **Channels**: every publish attempt opens a channel and leaves it open.  What a
  request notices of it, an attempt that raises although the connection is open, is
  the disturbance `"publish"`; that it comes after some two thousand publications
  and stays until the next connection is not modelled, since it takes the limit of
  the broker, which is not in the repository.
* **Abstracted**: characters, pixels, prompts, base64; back-off delays (the one of
  `connect()` is a variable of `Lifespan`); what each LLM provider returns before it
  is unpacked; the processing time and the average made from it.
* **Pillow's limit on pixels** (`MaxPixels`) is a constant of any value; in the
  library it is twice `Image.MAX_IMAGE_PIXELS`, beyond which `Image.open()` raises.
* **Words of messages**: `Quotable` has the words that field names in the quoted input
  add to a message, not those inside its free texts, in values of wrong types and in
  the names of extra fields.  More words cannot spoil `DefectsAreAddressed`, with one
  exception: a reply whose own text says `JSON_PARSE_ERROR`.
* **Conflicts**: `DetectConflict` is translated, and its verdict is part of the
  answer, but no property rests on it: it is a heuristic, and nothing says what it
  must find.
* **Left out**: logging, which keeps no state; the texts of the prompts; the
  validators of provider and log level; security headers; `parse_and_validate`,
  which only tests call; `src/infra`.


## 8. The plan

The modules of the first plan are written; every invariant and action property that a
passing run checks is proved, and so is the safety of every refinement.  What
is left:

* `System` serves throughout.  A composition with `Lifespan` as well, in which the
  process is born and dies with its analyses, would carry `AnalysisPromisesKept` over
  crashes; each of the two halves is proved against `Worker` so far.
* The safety half of what liveness rests on, that a request that is neither settled nor
  stranded always has a step ahead of it, would be worth a theorem; that the step is
  taken stays with TLC.


## 9. Running

    tlc -config Worker_safety.cfg MCWorker.tla
    tlapm SystemProofs.tla

`PROJECT.json` names, for every run, its module and configuration; for every
definition, the lines of code it models; and for every property, a mutation of
the model that breaks it.
