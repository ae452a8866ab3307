# Route Annotator in TLA+

Models of the node addon of this repository (`src/src/`): how it loads OpenStreetMap extracts and
CSV files of speeds, what it answers from them, what JavaScript sees when its calls run on several
threads, and how the example server uses it.
TLC checks the models on small instances; TLAPS proves the theorems for every instance.
Paths below are relative to the repository (`src/...`); a module `X` is the file `X.tla` here.

    tlc -workers 2 -config MCExtractor.cfg MCExtractor
    tlapm AnnotatorProofs.tla

`PROJECT.json` maps each definition to the lines it translates, and lists the runs, the seeded
mistakes (the operators `X_Bug`, each of which some property must catch), the hazards, the
findings and the theorems.

## 1. The system

### Components

| component | state | operations | in this project |
|---|---|---|---|
| `Extractor` + `Database` (`extractor.cpp`, `database.cpp`) | id map of nodes, list of located nodes, map of node pairs to ways, tag ranges, tags, interned strings, OSM way ids, RTree | parse tag file, parse each OSM file (filter way, store tags, store pairs), `SetupDatabase` (`build_rtree`, `compact`) | `Extractor` |
| `RouteAnnotator` (`annotator.cpp`) | a reference to a `Database` | `external_to_internal`, `coordinates_to_internal`, `annotateRoute`, `get_tag_range/key/value`, `get_external_way_id` | `RouteAnnotator` |
| `Annotator` object (`nodejs_bindings.cpp`) | two `unique_ptr`s, `database` and `annotator`; the option `createRTree` | `loadOSMExtract`, `annotateRouteFromNodeIds`, `annotateRouteFromLonLats`, `getAllTagsForWayId`, each with a worker (`Execute`) and a callback | `Annotator` |
| Nan's `AsyncWorker`, libuv's pool and event loop (external) | queue of workers, running workers, finished workers | enqueue, begin, finish, call back | `AsyncWorker` |
| `SegmentSpeedMap`, `WaySpeedMap` (`*_speed_map.cpp`) | a map from node pairs, or way ids, to speeds | `loadCSV`, `add`, `add_with_unit`, `getValues` | `SpeedMap`, `CSVLoader` |
| `SegmentSpeedLookup`, `WaySpeedLookup` (`segment_bindings.cpp`, `way_bindings.cpp`) | a `shared_ptr` to a map | `loadCSV`, `getRouteSpeeds`, each with a worker and a callback | `SpeedLookup` |
| Example server (`example-server.js`) | an answer being put together per request | `/nodelist`, `/coordlist` | `ExampleServer` |
| registration, build, benchmark, tests | none that lasts | | not modelled |

### How they interact

A method called from JavaScript runs on the main thread. It checks its arguments, throws or hands
a worker to the pool. A pool thread runs the worker's `Execute`; the main thread runs its callback
later. `loadOSMExtract`'s `Execute` makes a new `Database`, has an `Extractor` fill it, makes a
`RouteAnnotator` that refers to it, and swaps both into the fields of the `Annotator` object. The
queries check the fields on the main thread, read `self.annotator` on a pool thread once for each
thing they ask, and `getAllTagsForWayId` reads it again in its callback for each key, each value
and the OSM id. No lock guards the fields. The speed lookups are different: a load puts its map
in place in its *callback*, on the main thread, and a query takes a `shared_ptr` when it is called.
A load keeps its object alive by a persistent handle; a query needs the map only. The example
server calls one `Annotator` for all its requests: first for the ways of a route, then, in that
callback, for the tags of every way at once, and puts the response together as these arrive.

### What is hard

* Steps of loads and queries interleave at single reads and writes of the two fields
  (`nodejs_bindings.cpp:169-170, 201, 249-250, 404, 412-423`); an object that one of them frees
  may still be in use by another.
* A tag range is computed on a pool thread and used on the main thread; a way id is given out by
  one load's data and asked about in another's.
* Workers finish in another order than they were queued in.
* A load can fail at its first line, between two files, or in the middle of a way
  (`std::stoi`, `extractor.cpp:207`), and must leave the object as it was.
* A pair of nodes is given up half-way when one of them has no location (`extractor.cpp:254-301`),
  while the internal id of a node is the size of one table and its place in another.
* Ranges of tags, string ids and way ids are all positions in vectors that are indexed without
  checks.
* A CSV file is added to the map while it is parsed, so that a load that fails has filled half a
  map; a row of ways may go over line ends (`way_speed_map.cpp:35`).
* Callbacks of loads write an object the program may have forgotten meanwhile
  (`segment_bindings.cpp:94, 116-120`).
* The callbacks of one request of the server come in any order, mixed with those of others.
* Ids are 32 bits wide with the largest one invalid; texts are cut to 255 characters; miles are
  rounded to kilometres.

### What makes each component correct

* **Extractor**: internal node ids are dense and never the invalid id; the location list stays
  aligned with the id map; each way keeps its own tags; equal texts share an id and different
  texts do not; nothing stored is changed later; a finished load answers as the files do; every
  load ends.
* **RouteAnnotator**: over a well-formed database no index is out of range and each answer is the
  first usable way, in reading order, on which two nodes are neighbours.
* **AsyncWorker**: no call is lost or run twice.
* **Annotator**: no access to missing or freed memory, no leak, each answer comes whole from the
  data of the last successful load, data once loaded stays, every accepted call calls back.
* **Speed maps**: the last row with a valid speed wins, in its direction only; the value 255 only
  means "no value"; a load that does not read every line of its files fails; every load ends.
* **Speed lookups**: a load takes effect whole and at one moment, or not at all; a query answers
  from the map of the moment of its call; no callback writes an object that is gone.
* **Example server**: each request gets one answer, with every way of its route and its index.

`Annotator` and the speed lookups promise their callers the same thing, which `Store` states once:
the data of an object is an atomic register, replaced by loads, read by queries.

## 2. The modules

    AsyncWorker ──┬── Annotator ─────── AnnotatorProofs ── AnnotatorRefinementProofs
                  │       └── AnnotatorRefinement ── MCAnnotator ── Samples
                  ├── SpeedLookup ───── SpeedLookupProofs
                  │       └── MCSpeedLookup ── SpeedSamples
                  └── ExampleServer ─── ExampleServerProofs
                          └── MCExampleServer

    RouteAnnotator ─── Annotator, Extractor ── MCExtractor ── Samples
    Extractor ─── ExtractorProofs ── ExtractorAnswersProofs
    Units ─── Extractor, SpeedMap ─── SpeedLookup, CSVLoader ── MCCSVLoader ── SpeedSamples
    CSVLoader ─── CSVLoaderProofs

`AnnotatorRefinement` and `SpeedLookup` instantiate `Store`; `CSVLoader` instantiates `SpeedMap`;
the other lines are `EXTENDS`. `AnnotatorProofs`, `SpeedLookupProofs` and `ExampleServerProofs` also
extend `AsyncWorkerProofs`, and `AnnotatorRefinementProofs` extends `AnnotatorRefinement`.

**AsyncWorker** (external: Nan and libuv, from how `src/src/*_bindings.cpp` use them). `phase[j]`
says where call `j` is between the call and its callback, `queue` holds the workers no thread has
taken, `finished` those whose callback is due, `main` the callback the main thread is in. Its
actions are conjoined with those of the modules that extend it. `EachOnce` is its invariant.

**RouteAnnotator** has no state: each method of `annotator.cpp` is an operator on a database, a
record with the fields of `database.hpp`. What a call may return when several nodes are equally
near is a set. `WellFormed` is what the unchecked indices take for granted. Points are metres
along a line: the code only compares distances.

**Extractor** is one load. `input` is what the load is given and what it reads; each action is one
turn of a loop:

| action | code |
|---|---|
| `ReadTagFile` | constructor and `ParseTags`, `extractor.cpp:34-41, 93-108` |
| `OpenFile`, `EndFile` | `ParseFile`, `extractor.cpp:55-80` |
| `StartWay` | `FilterWay` and the early return of `way`, `extractor.cpp:182-191` |
| `StoreTag`, `FailTag`, `EndTags` | the tag loop, `extractor.cpp:194-232`, with `Database::addstring` |
| `StorePair`, `EndWay` | the loop over node pairs, `extractor.cpp:237-304` |
| `SetupDatabase` | `extractor.cpp:43-53`, `build_rtree` then `compact` |

**Units** has what both loaders share. A text is the number it starts with and the rest, because
`get_digits`, `stoi`, the search for `mph` and the grammars of CSV files tell no more apart.
`RoundKph` is the exact rounding of `speed * 1.609344`; the code computes
with `float`, which gives the same whole number for every speed below 8080 (computed for each of
them outside the model), and the model's inputs are far below. `IntMax` and `IdLimit` are the
limits of `int` and of the 32 bit ids.

**Annotator** is one object. A pointer is the load that made what it points to, or `Null`;
`liveDatabase` and `liveAnnotator` are the objects that exist. Every read and write of a field is
a step: `ReadDatabase`, `WriteDatabase`, `ReadAnnotator`, `WriteAnnotator` are the two swaps,
`FreeAnnotator` and `FreeDatabase` the end of `Execute`'s locals in reverse order of declaration,
`Fetch` the read before each use of `self.annotator`. The first access to an object that is gone,
or past the end of a vector, is recorded in `fault` and the behaviour ends there: the program
could do anything. `BuildDatabase` is a whole load in one step. It touches only objects no other
thread can reach, so its inner steps commute with everything; `Extractor` models them, and
`BuildsSamples` checks that the databases `MCAnnotator` serves from are those that `Extractor`
makes.

`Habits` says what the JavaScript program does *not* refrain from: starting a load while another
is under way ("load"), having a load and a query under way together ("query"), using way ids of
replaced data ("keepWayIds"). Programs with neither of the first two wait for the callback of a load
before they do anything else: the tests do, and the example server. Not all programs are of this
kind: the example of `README.md:57-87` starts two loads back to back, with queries of one beside the
other, which are the habits "load" and "query". The remarks of `nodejs_bindings.cpp:79` and `:168`
promise that this too is safe, and two findings show it is not; the theorems of section 4 say which
habits are to blame, and for what. What overlaps is checked in the runs `annotator_overlap`,
`annotator_two_loads` and `annotator_query_during_load` only; `annotator` cannot say anything of it.

**Store** is what a caller of `Annotator` or of a speed lookup may rely on: `Load` begins, `Install`
replaces the data at one moment, `EndLoad` calls back after it, or with an error if there was none;
`Ask` takes the data of its moment and `Answer` answers from it. **AnnotatorRefinement** maps
`Annotator` to it: the data is that of the field `annotator`, in place with the second swap, and a
query is answered from the data of its call. That is true of programs that let no call overlap a
load ("load" and "query" are not in `Habits`).

**SpeedMap** has no state: which lines of a CSV file are rows (`Fits`), where a row ends (`RowEnd`,
`Complete`), what it adds (`Add`) and what is looked up (`getValues`), for `Format` "segment" or
"way". A line is the sequence of its fields. Blank lines are fields too, so that the end of a
file, and what a name of a way swallows, are as in the grammars. Of the conversion of a `float`
that does not fit `uint32_t`, `ToUint32` has the outcomes of x86-64 and of AArch64. Node ids beyond
64 bits and carriage returns are left out.

**CSVLoader** is one load into a new map: `OpenFile` (the mapping of the file), `AddRow` (one match
of the row and the semantic action, which runs even if the rest of the line then fails), `EndFile`
(the parser stops: the file was read, or `loadCSV` throws), `EndLoad`.

**SpeedLookup** is one object of either kind, at the granularity of the program's threads:

| action | code (`segment_bindings.cpp`; `way_bindings.cpp` has the same lines) |
|---|---|
| `RejectArguments`, `loadCSV` | 47-132, up to `AsyncQueueWorker` |
| `getRouteSpeeds` | 144-172 and 222-223: the ids, and the `shared_ptr` of the moment |
| `LoadFiles`, `FailLoad` | `CSVLoader::Execute`, 97-111 |
| `LookUp` | `Worker::Execute`, 186-197 |
| `EnterCallback` | `HandleOKCallback` of a load up to the swap, 113-120; of others, nothing |
| `Deliver` | `callback->Call`, and the worker's end, which releases its map |
| `DropObject`, `CollectObject` | the program forgets the object, the collector takes it: not while a load has it in its handle "self" (94) |

A whole load is one step here, since its map cannot be reached by other threads; `BuildsMaps` checks
that the maps `MCSpeedLookup` serves from are those that `CSVLoader` makes.

**ExampleServer** composes requests with `AsyncWorker`: `nodeListHandler` and `coordListHandler` make
the first call, `EachWay` is one turn of `async.each` in its callback, `AddTags` the callback with
the tags of one way, `next` sends the response after the last. The server listens only after its
load has ended (`example-server.js:30-37`), so the Annotator's data is fixed and its answers are
constants. `new Annotator()` in line 25 makes every coordinate request end in a 400
(`CoordinatesFailed`): the rest of that handler cannot be reached.

**Samples** holds two tiny extracts and the databases they become. In `West` the first node has no
location, so a load with coordinates skips it and moves every id; the same route has different
internal ids and different ways in the two, and `West` has three ways, `East` two, so that a way id
of the one may be past the end of the other. **SpeedSamples** does the same for CSV files: `Slow`
knows two keys, `Fast` (two files) one of them, `Bad` cannot be loaded. The modules **MCX** give
the constants their values.

## 3. The runs

| run | properties | distinct states |
|---|---|---|
| `extractor` | `TypeOK` `NodeIdsDense` `NodeListAligned` `TagSlices` `StringsInterned` `AnswersMatchFiles` `TreeMatchesNodes` `CoordinatesMatchFiles` `BuildsSamples` `OnlyAdds` `Terminates` | 25 000 |
| `annotator` | `TypeOK` `OnlyStaleIdsFault` `AnswersCurrent` `OwnershipAtRest` `ImplementsStore` | 125 000 |
| `annotator_overlap` | `NeverNull` `EachOnce` `StaysLoaded` | 2 240 000 |
| `annotator_live` | `EveryCallAnswered` | 6 000 |
| `csv` | `TypeOK` `LastRowWins` `EverySegmentRead` `BuildsMaps` `WorkShrinks` `Terminates` | 16 000 |
| `speed` | `TypeOK` `SelfAlive` `ImplementsStore` `EveryCallAnswered` | 37 000 |
| `server` | `TypeOK` `ResponseWhole` `NeverForgotten` `AnsweredOnce` `EveryRequestAnswered` | 18 000 |
| `annotator_two_loads`, `annotator_query_during_load`, `annotator_coordinates`, `csv_ways`, `speed_way_ids` | one each, found violated | |

**extractor.** Every choice of three ways from a pool of six, two in a first file and one in a
second, with and without coordinates, for three tag files; seven loads of two other files, five of
which fail (missing tag file, no `nodes.cache` with coordinates, an unreadable file, a broken file,
`maxspeed` out of range) and two of which do not (empty tag file, no `nodes.cache` without
coordinates); and the sample loads. Two files are needed for nodes that get a location only later,
three ways for a pair that occurs twice with something between, a way of three nodes for a pair
given up in the middle. The pool has a way against its direction, one that repeats a node, one that
only a tag rule makes usable, one too short, two long names that are cut to the same text, a speed
in miles, one without digits and one out of range, and an OSM id wider than the id type. Four nodes,
`IntMax` 500, `IdLimit` 255. The second file moves a node that has an id already: the tree must keep
it where it was. Questions about coordinates are asked of every finished load for each two of eight
`Points`: half-way between two nodes, at `MaxDistance` from one, within it by one, and far from all.
`TreeMatchesNodes` and `CoordinatesMatchFiles` compare with `Places` and `NodesNear`, which are the
locations of the files and the nodes nearest by them. `NodeAssumption` is a limit of the model: an
extract has no more nodes than there are valid ids. The code does not check this (hazard at
`extractor.cpp:253`). The properties compare the tables with what the files say, computed from
`input` alone (`FirstWay`, `Reported`).

**annotator.** Five calls in any order and of any kind (a load of `East`, `West` or of a broken
file, a route by nodes, by coordinates of which one has two nodes equally near and one has none near
enough, the tags of any way the program knows, a call with bad arguments), two threads. The program
lets no call overlap a load, but keeps the way ids of data it has replaced (`Habits =
{"keepWayIds"}`): `OnlyStaleIdsFault` says that such an id can be read past the end of a vector and
that nothing else can go wrong, `AnswersCurrent` that every answer is of the data of the last load,
also where the id means another way there. Five calls are enough for load, route, tags, reload and
route again; two threads let two queries run together and a third wait. `ImplementsStore` says that
these calls, of dozens of steps on two threads, look like single steps to the program: a load that
calls back without an error has replaced all the data at once, one that fails has replaced none, and
a query is answered whole from the data of its call. The calls are interchangeable, so TLC may use
their symmetry (no liveness is checked with it).

**annotator_overlap.** Four calls with every habit. It is a check of what survives when the
fields race: no null pointer is used, no worker is lost, data stays loaded. `Coordinates` is
`FALSE` to keep the run short; the race does not depend on it.

**annotator_live.** Three calls, with weak fairness, without symmetry, made without coordinates
so that coordinate queries end in an error and call back with it.

**csv.** For either format every file of up to three lines out of nine, a file of one line before
one of two or before one that cannot be read, and the sample files. Three lines are enough for a
row, one for the same key with another unit, and a bad one; two files for a key given in both. The
lines have speeds of 254 and 255, 159 miles (256 km/h), a key in both directions, too few and too
many columns, blank lines, and way ids and speeds out of range. `UintMax` is 511 so that these are
small numbers; 318 miles are then 512 km/h, the first product that does not fit. With such a
speed in a file only `TypeOK` and the end of the load are claimed: the outcome is undefined, and on
x86-64 a product of 2^32 (2668768897 miles are the first) is a speed of 0 that replaces the one in
the map.
`LastRowWins` compares the map with what the files say, computed from `input` alone.

**speed.** Three calls on two threads: two loads that finish out of order, and a query before,
between or after them; an object that is dropped at any moment. Format "segment"; the theorems of
section 4 hold for both formats and any number of calls.

**server.** Two requests on two threads, for four routes of up to three pairs of nodes: a way met
twice, two ways with the same OSM id, pairs on no way at either end and alone. Two requests are
enough for the callbacks of one to come between those of another. The order of `way_indexes` is
that of the answers, not of the route, and a pair on no way leaves no mark: nothing in the
repository says otherwise, so no property does. `NeverForgotten` is what there is of
`EveryRequestAnswered` without fairness: a request without an answer has a call under way.

**Violations.** Each is something a comment or document says and the code does not do:

* `CoordinatesAnswered`: `README.md:74-80` queries coordinates on the object made with
  `Annotator()` in line 57; without `{coordinates: true}` there is no tree and the query fails.
* `SwapIsTransactional`: two overlapping loads can leave the annotator of one load beside the
  database of the other, which the reference in that annotator does not own
  (`nodejs_bindings.cpp:168`).
* `AnswersFromOneDatabase`: a query that overlaps a load can convert ids with the old data and
  look them up in the new (`nodejs_bindings.cpp:79`). `README.md:57-87` itself starts the second
  load without waiting for the queries of the first.
* `EveryWayRead`: `test/wayspeeds/wayspeeds.cpp:108-112` expects an exception for a file of ways that
  lacks columns; the name of a way takes in line ends (`way_speed_map.cpp:35`), so that `1,name` and
  `300,kph,30` on two lines are one row.
* `NonNegativeIdsAccepted`: `way_bindings.cpp:167-168` asks for non-negative ids; the conversion to
  `int32_t` before it (165) rejects half of those a `wayid_t` can hold, and takes larger ones for
  others.

Smaller divergences that no run is about: `types.hpp:45-48` calls the second number of a tag range
the index of the last entry, and it is one past it (`extractor.cpp:226-227`); the example of
`README.md:57-69` loads without a tag file and asks for tags, of which `extractor.cpp:197` keeps none
without rules; the request for coordinates of `README.md:146-149` gets a 400, as the server makes its
Annotator without coordinates; `annotator.cpp:34` says "within 1m" where
`MAX_DISTANCE` is 5, and `annotator.cpp:49` says "insert a 0 value" where the invalid id is
inserted.

**Fairness.** `Extractor!FairSpec` and `CSVLoader!FairSpec` have `WF_vars(Next)`: a load is one loop on
one thread. In `Annotator` and `SpeedLookup`, `WF_vars(Work(j))` for each call, and in `ExampleServer`
the same, split into `Pool(j)` and `Callbacks(r)`: a pool thread that has a worker runs it, an idle
thread takes the oldest worker, and node's event loop runs the callback that is due. Nothing is
assumed of the calls themselves, which no one is bound to make. `Work(j)` of a queued call is
disabled while all threads are busy, yet weak fairness is enough: those threads' own work ends,
and once the call is at the head of the queue no other call can take its turn.

## 4. The proofs

| module | theorem | statement | holds for |
|---|---|---|---|
| `AnnotatorProofs` | `TypeCorrect` | `Spec => []TypeOK` | any calls, threads, databases, habits |
| | `WorkersRunOnce` | `Spec => []EachOnce` | the same |
| | `NullSafe` | `Spec => []NeverNull` | the same |
| | `DataStays` | `Spec => StaysLoaded` | the same |
| | `CoordinatesFound` | `Spec => []CoordinatesAnswered` | the same, every extract that can be loaded with a tree |
| | `NothingLeaks` | `Spec => []OwnershipAtRest` | `"load" \notin Habits` |
| | `SwapsAreTransactional` | `Spec => []SwapIsTransactional` | `"load" \notin Habits` |
| | `NothingDangles` | `Spec => []OnlyStaleIdsFault` | `"load", "query" \notin Habits` |
| | `FaultFree` | `Spec => [](fault = "none")` | `Habits = {}` |
| `AnnotatorRefinementProofs` | `AnswersComeFromOneDatabase` | `Spec => []AnswersFromOneDatabase` | `"query" \notin Habits` |
| | `AnswersAreCurrent` | `Spec => []AnswersCurrent` | `"load", "query" \notin Habits` |
| | `Refinement` | `Spec => ImplementsStore` | `"load", "query" \notin Habits` |
| `ExtractorProofs` | `TypeCorrect` | `Spec => []TypeOK` | any files, tag file, limits |
| | `NodeIdsAreDense` | `Spec => []NodeIdsDense` | the same |
| | `LocationsFitIds` | `Spec => []NodeListAligned` | the same |
| | `TextsHeldOnce` | `Spec => []StringsInterned` | the same |
| | `DatabaseIsWellFormed` | `Spec => [](pc = "done" => WellFormed(Database))` | the same |
| | `NothingIsChanged` | `Spec => OnlyAdds` | the same |
| `ExtractorAnswersProofs` | `TagsAreOfTheirWay` | `Spec => []TagSlices` | the same |
| | `AnswersAreTheFiles` | `Spec => []AnswersMatchFiles` | the same |
| | `TreeHoldsNodes` | `Spec => []TreeMatchesNodes` | the same |
| | `CoordinatesFindNearest` | `Spec => []CoordinatesMatchFiles` | the same, any points |
| `CSVLoaderProofs` | `TypeCorrect` | `Spec => []TypeOK` | any files of either format |
| | `SegmentsComplete` | `Spec => []EverySegmentRead` | the same |
| | `LastRowKept` | `Spec => []LastRowWins` | the same |
| | `EveryLoadAdvances` | `Spec => WorkShrinks` | the same |
| `SpeedLookupProofs` | `TypeCorrect` | `Spec => []TypeOK` | either format, any files, ids, calls, threads |
| | `ObjectAlive` | `Spec => []SelfAlive` | the same |
| | `Refinement` | `Spec => ImplementsStore` | the same |
| `ExampleServerProofs` | `TypeCorrect` | `Spec => []TypeOK` | any requests, routes, threads |
| | `OneAnswer` | `Spec => AnsweredOnce` | the same |
| | `NoneForgotten` | `Spec => []NeverForgotten` | the same |
| | `ResponseIsWhole` | `Spec => []ResponseWhole` | the same |

So every invariant and action property of the passing runs is proved, but for `BuildsSamples` and
`BuildsMaps`, and both refinements are.

Three of the properties are those of runs that find them violated. There the theorem is the other
side of the finding: it holds as soon as the one habit of that run is given up, or, for
`CoordinatesAnswered`, as soon as the extracts are loaded with coordinates. What the habits cost:

| habit | what it can break | what is proved to hold with it, the other two given up |
|---|---|---|
| "load": a load during a load | `SwapIsTransactional`, `OwnershipAtRest`, `OnlyStaleIdsFault` | each answer is whole, from one database |
| "query": a query during a load, or a load during one | `AnswersFromOneDatabase`, `OnlyStaleIdsFault` | swaps are transactional, nothing leaks |
| "keepWayIds": way ids of replaced data | `fault = "none"`, by a read past the end of a vector | all but that: `OnlyStaleIdsFault`, nothing leaks, the object is a `Store` |

TLC finds a violation for each entry of the second column on instances of three or four calls.

**The assumptions** are the named `ASSUME`s of the modules; TLC evaluates them in the runs.
`NoJob` is no call (`JobAssumption`), "unread" is no pointer (`UnreadAssumption`), there is a thread,
`MaxDistance` and `IdLimit` are positive, `Points` are points (`PointAssumption`). `Annotator!BuiltAssumption` says that the databases loads
build are well-formed: that is `DatabaseIsWellFormed`. `SpeedLookup!BuiltAssumption` says that loads
of CSV files build maps to valid speeds: that is `CSVLoaderProofs!TypeCorrect`. For `Extractor`: no
more nodes than valid ids (`NodeAssumption`, section 3), texts are strings (`TextAssumption`), and
`Inputs` are inputs, of any size. For `CSVLoader`: files are sequences of lines, and 255 fits the width
of a speed (`WidthAssumption`). For `ExampleServer`: there is a call for each request and for each
place of each route (`CallsAssumption`), and a route has at least one pair of nodes, each on a way
that has an OSM id or on none (`RoutesAssumption`). What is asked of `Habits` is not assumed of a
module but is a hypothesis of the theorems that need it.

**AsyncWorkerProofs** has one lemma per action of the pool: it keeps the types and `EachOnce`, and
a step of call `j` changes the phase of no other call. These are facts about queues: that a
`Tail` drops exactly its head, that an `Append` adds what was not there.

**AnnotatorProofs.** `NeverNull` is not inductive. Why is no null pointer used, though the guard
of a query runs on another thread and long before the use? Because a query is accepted only when
both fields are set, the swaps write only what a load has just made, and nothing writes null to a
field. `PointerSet` says this, with what the locals of a load hold in each step; `NullInv` adds
the types and the agreement of `pc` with `phase`, without which one could not tell which call is
where. There is a lemma for each group of actions, joined in `NextNullInv`.

The other theorems rest on four more invariants, each made of what it takes from the one before and
of one habit that is given up; the lemmas about a step are stated once per invariant, so that each
theorem has only the hypotheses it needs.

* `ShapeInv`, for all programs: a call's arguments agree with what its worker does; each pointer that
  can be used is to what a load of an extract that is not broken has made; each way id the program
  was told is of some data (`SomeWay`); and a query with an error has met a database without a tree
  (`Source`). `CoordinatesFound` follows.
* `LoadsInv`, without "load": one load is under way at most; `LoadState` says for each step of
  `OSMLoader::Execute` what the two fields, the four objects and the two locals are, and when no load
  is under way the fields own exactly the data reported last (`Owns`). A load reads nothing that a
  query writes, so that queries may overlap it. `NothingLeaks` and `SwapsAreTransactional` follow.
* `QueryInv`, without "query": no query is under way together with a load, so that what it finds in
  the field `annotator` stays from its call to its callback, though nobody knows which of several
  racing loads put it there; and its tags are read within the range of its way (`QueryState`).
  With `LoadsInv` the pointer it reads is live and its data is that reported last (`UsesLive`), so
  that the one index that may be out of range is that of a way the data does not have (`LookupFault`):
  `NothingDangles`.
* `WaysInv`, without any habit: the way ids the program knows are of the data reported last, so that
  the index of `annotator.cpp:117` is in range (`TagsInRange`, `RouteWays`, from `WellFormed`):
  `FaultFree`.

**AnnotatorRefinementProofs.** `AnswerInv` says, without "query", that what a query has gathered so
far is all of one load's data (`AnswerFrom`): `RouteState` for the ids and ways of a route, `TagState`
for the texts of the tags that come before the rest of the range. A query reads `self.annotator`
anew for each of them; that it finds the same each time is `QueryInv`, whichever load wrote it:
`AnswersComeFromOneDatabase`. With `LoadsInv` that load is the last one that called back without an
error (`QuerySource`), which is `AnswersAreCurrent`. Way ids need not be of that data for either: of a
way it does not have the program gets no answer, as its behaviour ends there. For `Refinement` there
is a lemma for each action, as for the speed lookups below: the second swap is `Install`, the
callbacks are `EndLoad` and `Answer`, a call is `Load`, `Ask` or `Refuse`, and all the reads, writes
and frees between them show nothing.

**ExtractorProofs.** The inductive invariant `IInv` has a part for each group of tables. `Position`:
where the load is and that the rules are those of the tag file. `NodesInv`: the id map is dense, and
the list of locations has at place `id` the node with that id, at a location of a file that was
opened; this is why the size of the map can serve as the next id although nodes are given up
half-way. `TextsInv`: texts and ids are one to one and tags name texts that are held. `WaysInv` and
`PairsInv`: ranges end at tags that are stored, and pairs name ways that have a range and nodes
that have an id. `TreeInv`: what a tree holds, if there is one. Each table only grows (`Keeps`), so
that a part is kept by the actions of the others; `DatabaseIsWellFormed` follows from all of them.

**ExtractorAnswersProofs** relates the tables to the files. How far a load has come is said in terms
of the files: the ways `Past`, those `Numbered`, and the neighbours `Seen`. `CountInv` says that a
way's id is the number of usable ways before it; `TagsInv` and `SlicesInv` that the tags stored
between two ends of ranges are those of one way; `MetInv` that the nodes with an id are those that
`NodesMet` computes from the files alone; `FirstInv` that the map of pairs shows for each pair the
first way seen on which it is linked; `PlacesInv` that each node that has an id is in the list where
the file in which it got it puts it (`FirstIn`), whatever later files say, and in the tree when there
is one. `TagsIInv`, `AnswersIInv` and `AllIInv` join them with `IInv`. `TreeHoldsNodes` is `PlacesInv` at
the end of the load; `CoordinatesFindNearest` needs that of places that are there one is nearest
(`OneIsNearest`), that ids and nodes are one to one, and what the pairs of nodes are answered with
(`AnswersAreTheFiles`).

**CSVLoaderProofs.** `LinesRead` is the invariant behind `SegmentsComplete`: every line before the
one the load is at was blank or a whole row. Behind `LastRowKept` are `AtRow`, that the load is always
where a row starts and never in the middle of one, though rows of ways go over line ends, and
`MapRead`, that the map holds for each key the last row of it that was added. For `EveryLoadAdvances`
the fact that counts is `RowEndType`: a row ends in its line or in a later one of the same file.

**SpeedLookupProofs.** `LookupInv` says what each worker has in hand: a load that succeeded the map of
its own files until it swaps it, a failed one an error, a query that has run the speeds of the map
it took; and that a collected object has no load under way. The last is why `SelfAlive` holds: it
is not inductive alone, since a load is made long before its callback. For `Refinement`, a lemma for
each action says which step of `Store` it is: a call is `Refuse`, `Load` or `Ask`, the swap is
`Install`, the callback is `EndLoad` or `Answer`, and all else, the threads, the failures and the
collector, shows nothing. `SameForOthers` and `AbstractUpdates` reduce each of them to what is seen of
one call.

**ExampleServerProofs.** Why does the last callback send the response, and none after it? The code
counts callbacks and compares with the length of the route, while two kinds of places are counted
at different times: those on no way when `async.each` passes them, the others when their tags come.
`CallState` says that the counter is the number of places in `Done`, those whose tags came or that
were passed over, and that a place has a call just when `async.each` has passed it and it has a
way. A step counts a place that was not in `Done`, so the counter was below the length and nothing
was sent; when it reaches the length, `Done` is the whole route. `ResponseState` says that the body
has what came: as many indexes of each OSM way as tags of it, and each way once. `ServerInv` is
their conjunction for every request with the types and `AsyncInv`; `StepOfOne` says that a step of
one request, and `RequestKept` that one of the pool, keeps the state of all others. `NoneForgotten`
follows: the places that are not in `Done` once the loop has passed them all have a call that is not
delivered.

**Recursion.** `NodesMet` is a recursive function of the files, and `RowStarts` the least set that
goes from row to row. The library's induction theorems cannot be instantiated here, but a set of
numbers that is not empty has a least member (`LeastNumber`, from the well-foundedness of `<`).
Applied to the set of counterexamples this gives each induction the proofs need, such as
`NodesMetUnfolds`: that the recursive function exists and satisfies its equation.

**Only model-checked.** Liveness (`Terminates`, `EveryCallAnswered`, `EveryRequestAnswered`) is out of
the prover's reach; `WorkShrinks` of a CSV file and `NeverForgotten` are the parts of it that are safety.
`BuildsSamples` and `BuildsMaps` are about the sample data of the runs. The five violations are of
the code.

## 5. Not modelled

* libosmium's decoding of files and its index of node locations: their results are the input of
  `Extractor`. The index is in memory (`SparseMemArray`, `extractor.cpp:25-26`) and lives as long
  as one `ParseFile`, so each file has its own locations (`at`). `nodes.cache` need only be there
  to be opened; that it cannot be is modelled, the descriptor that leaks (`extractor.cpp:62`) is
  not counted.
* The constructor of `Extractor` that reads from a buffer (`extractor.cpp:82-91`) and `dump`
  (`database.cpp:63-101`): not reachable from the addon; the second only prints.
* The checks of each argument: `RejectArguments` is a call that throws, whatever the reason.
* Garbage collection of the `Annotator` object while its workers run (hazard at
  `nodejs_bindings.cpp:186`).
* `hasKey` and `getValue` of the speed maps (only tests call them) and the hash of a `Segment`: they
  change nothing, and no result depends on the hash.
* HTTP, Express and `async.each` are external; a request that Express does not route is not one.
* Way ids that no answer contained: `getAllTagsForWayId` takes any number and indexes with it
  (hazard at `annotator.cpp:117`); the model's program asks about ways it was told of.
* Characters, the haversine formula and the RTree's structure: only equality, the order of
  distances and the limit of 5 m matter to the properties.
* Weak memory: a data race is modelled as the interleavings of whole reads and writes, which is
  less than the C++ standard allows and already shows the findings above.

## 6. Plan

Done: the load, the questions, the object that serves them, its ownership and its refinement; the
speed maps, the lookups and their refinement; the example server; the proofs of every safety
property that is checked, each for the most programs it is true of; a measure for the loads of CSV
files. What is left:

1. A measure for the calls of `Annotator` and of the speed lookups: the steps left until the callback,
   with the calls ahead in the queue.
2. Garbage collection of the `Annotator` object while its workers run.
