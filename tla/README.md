# A formal model of CiteParserService

CiteParserService parses bibliographic references: a TCP daemon (`citepd`) reads
a text that holds references, labels its tokens with a CRF++ model (author,
title, journal, ...), joins neighbouring tokens of one label into fields and
answers with JSON. This directory models it in TLA+, checks the models with TLC
and proves theorems about them with TLAPS.

## The system

| part | state it keeps | operations | interacts with |
|---|---|---|---|
| `citepd` parent (`src/citepd.cc`, `cpsd`) | listening socket, `connfd`, SIGCHLD disposition | accept, install handler, fork, close | kernel, children, clients |
| SIGCHLD handler (`lib/argcvnw/argcvnw.c`, `sig_chld`) | none of its own | `waitpid` until nothing is left | interrupts the parent |
| `citepd` child | the query, `query_offset`, its copy of the connection | read, find the end flag, `rpc_query`, write, close, exit | client, predictor |
| command line client (`src/cpcli.cc`) | the request, what was received | connect, send, read to the end | `citepd` |
| Java client (`cli/java/.../CitationReader.java`) | the address, static and shared; tries left, citations collected | `getInstance`, `citeParse` | `citepd`, other threads |
| predictor (`lib/cite_parser/citpred.cc`) | two windows of tokens, CRF tagger, list of citations | next token, features, labels, assembly of fields | tokenizer, windows, dictionaries, CRF++ |
| token windows (`lib/cite_parser/queue.c`) | ring of 13 slots | enqueue, enqueue with drop, dequeue, peek from either end | predictor |
| tokenizer (`lib/cite_parser/strHandle.c`) | none | cut the next word and its delimiters, cut a word into parts | predictor, trainer |
| text holder (`lib/cite_parser/virtualcontent.c`) | raw and parsed text, content type, `noparse` | set, read a file, parse tags, clean | predictor, trainer |
| tag names (`lib/cite_parser/tokens.c`) | tag numbers, packed stack of open tags | load, look up, push, pop | text holder |
| dictionaries (`lib/cite_parser/dict.c`, `include/khash.h`) | ten hash maps | load, look up with prefixes | predictor, sqlite |
| trainer for headings (`hftctl.c`) and its database (`persistence.c`) | candidates of a file, in memory and in tables | merge, insert, read back, delete | text holder, sqlite |
| other trainers (`crftctl.c`, `crftfun.c`, `hftnpse.c`, `eftctl.c`, `eftfun.c`, `common.c`, `minEditDistance.c`) | sample files | build training samples | tokenizer, text holder |
| name server (`src/ng.cc`) | like `citepd`, not in the build | accept, fork, pipe to a jar | clients |

`citepd` accepts a connection, forks, and the child works alone on one query:
there is no shared memory, but the processes share connections (file descriptors
are copied by `fork`), the process table (zombies), the one pending SIGCHLD, and
the listening socket.  Inside a child everything is sequential, and what is hard
is the order in which windows, offsets and buffers are updated and read.  The Java
client shares two static fields between threads; the trainers share a database
with their own earlier runs.

## What is hard

- children end while the parent is anywhere in its loop, and signals merge;
- a connection ends for its client only when the last copy of it is closed;
- a flag may be cut in two by `read`, the size limit is looked at after the flag;
- fork, accept and the parser can fail; a parent that is killed leaves children
  behind that keep the port bound;
- a Java thread reads host and port without the lock they are written under; a
  connection that will not close counts as a failed try after its answer was kept;
- the predictor reads a window slot after it has been dequeued, and looks before
  and after the current token at the ends of the text, where there is none;
- its scans for keywords, brackets, quotations and ISBNs reach as far as the windows
  do, and two of these flags outlive the token;
- the labels of the tokens are read one past the last;
- the loop that notes the signs of a word goes one character too far, and the state of
  an abbreviation is kept in three flags;
- the text holder hands one buffer out under two names;
- the stack of open tags is a number of 32 bits;
- a dictionary is a hash table with deletions that is hashed anew in its own memory;
- a training run may be stopped, or an insert fail, between rows and their number.

`PROJECT.json` has the whole list, with the line of each and the properties about it.

## What each part must do

- Server: an answer is the parse of exactly the bytes before the first end flag
  of its own connection; no process but its child keeps a connection open, so
  that its client sees it end; every zombie is reaped; one silent client does not
  stop the backlog; the failure of a child, of `accept` or of `fork` is felt by
  the clients concerned only.
- Java client: the citations of a text are collected once; a try goes to the
  address its thread gave, unless another thread gives one in between; a call ends.
- Windows: first in, first out, at most twelve tokens; the two ways of looking
  into a window agree; the slot handed out by `deQueue` is not written before the
  next removal.
- Predictor, rows: one row per word, in order, from the right neighbours, with the
  word's own bytes; neighbours that do not exist are not used; what is said of the
  words around is true of them, as far as they are in sight.
- Predictor, citations: every word goes into one field of one citation, under its
  own label; citations once finished stay as they are; a piece is lost only where a
  later one is written over it.
- Tokenizer: every letter and digit is in one word, words follow each other and each
  takes some bytes; it gives up early only where it must; every sign is noted for one
  word.
- Text holder: no block is freed twice or used after it was freed; what a call leaves
  allocated is known.
- Tags: every character is stored with the tags open around it, as long as these fit into
  the stack; a text whose tags do not balance is refused.  Of a text that nests too deep
  this holds if it closes its tags; surplus tags that are never closed are not noticed.
- Dictionaries: a lookup finds what the table has, and ends.
- Trainer for headings: every offset is in one candidate, near it; what is read from the
  database is what would be computed; the database does not grow for ever.

## Modules

| module | what it is | code |
|---|---|---|
| `Framing` | where the first end flag of a query is | `citepd.cc` 54, 234-237 |
| `CiteService` | what the server promises to a client: abstract specification | `citepd.cc` 231-273 |
| `Citepd` | the server, its children, the kernel state they share, the clients | `citepd.cc` 171-281, `argcvnw.c` 31-151 and 367-384, `cpcli.cc` 34-82 |
| `CitepdProofs` | five theorems about `Citepd`, the refinement among them | |
| `CitationReader` | the Java client's threads, against `CiteService` | `CitationReader.java` 31-119 |
| `CitationReaderProofs` | four theorems about it | |
| `CNSQ` | the ring of `queue.c`, as operators on a record | `queue.c`, `queue.h` |
| `TokenWindow` | what a ring promises: a bounded window, abstract specification | `queue.c` |
| `CNSQueue` | one ring under every sequence of calls | `queue.c` |
| `Scans` | what the scans over the windows compute, as recursive functions | `citpred.cc` 637-994 |
| `Predict` | two rings and a text: from words to rows of features | `citpred.cc` 270-288, 554-1457 |
| `PredictProofs` | six theorems about `Predict`, and five about `CNSQueue`, that it implements `TokenWindow` among them | |
| `Assembly` | from labels to citations | `citpred.cc` 30-267, 1447-1481 |
| `AssemblyProofs` | eight theorems about `Assembly` | |
| `WordMarks` | the signs noted for a word, and its parts | `citpred.cc` 296-407, `strHandle.c` 108-136 |
| `Tokenizer` | where words begin and end | `strHandle.c` 4-106, `citpred.cc` 270-288, 409-414 and 542 |
| `TokenizerProofs` | four theorems about `Tokenizer` and `WordMarks` | |
| `TokenStack` | the stack of open tags in an unsigned integer | `tokens.c` 83-101 |
| `TagText` | the scan of a text with tags, and who reads its result | `virtualcontent.c` 132-285, `hftctl.c` 178-192, `eftfun.c` 1714-1740 |
| `TagTextProofs` | four theorems about `TagText` | |
| `VirtualContent` | the life of the text's memory over calls | `virtualcontent.c` 37-124, 163-183, 288-317, `citpred.cc` 1486-1508 |
| `KHash` | the hash table of `khash.h`, as operators on a record | `khash.h` 90-289 |
| `DictTable` | what loading a table amounts to: abstract specification | `dict.c` 241-262 |
| `Dict` | loading into the hash table, lookup by beginnings | `dict.c` 241-340 |
| `StoreProofs` | two theorems about `VirtualContent`, three about `Dict` and one about `DictTable`, which it implements | |
| `HeadTraining` | the candidates of a file, merged, stored and read back over many runs | `hftctl.c` 414-631 (143-160 for the texts), `persistence.c` 110-218 |
| `HeadTrainingProofs` | four theorems about it | |
| `MC*` | instances for TLC | |

`Citepd` extends `Framing` and has an instance `Promise` of `CiteService`, which it
implements; `CitationReader` has an instance `S` of the same specification and takes its
actions for the server, so that what is proved of one is what the other relies on.
`CNSQueue` and `Predict` extend `CNSQ`; `CNSQueue` has an instance `Promise` of `TokenWindow`,
`Predict` applies the operators to two records, `preQ` and `nextQ`, and those of `Scans`
to the words they visit.  `Tokenizer` extends `WordMarks`, `TagText` extends `TokenStack`,
`Dict` extends `KHash` and has an instance `T` of `DictTable`, which it implements.

The parts meet where the code hands data on: a child's action `Parse` stands for
`rpc_query`, whose inside is `Predict` and then `Assembly`; `Crash` of `Citepd` is what
`Predict` reaches as `outcome = "crash"`; `VirtualContent` takes parseFile's success or
refusal as a choice, and `TagText` says when it is which; that a word takes at least
one byte, which `Predict` assumes of `spilitContent`, is part of `WordsCover` of
`Tokenizer`, and the signs a word of `Predict` has are what `WordsNoted` says of
`WordMarks`; `Assembly` starts from one label and one span per word, which is what
`RowsAreTheWords` says `Predict` ends with.

### Citepd

Each parent state is a place in the loop of `cpsd`: `accept`, `signal` (the handler
is installed after `accept` returns, and anew on every turn), `fork`, `close`; `down`
is a parent that does not run, before `Start` and after `Kill`.  `sig_chld` is not a
process: `HandlerEnter` may happen between any two steps of the parent and then the
parent waits (`reaping`) until `HandlerReturn`.  A SIGCHLD is a single bit
(`pending`), since signals do not queue.  A child goes through `read`, `parse`,
`write`, `close`, `exit`; `Read` takes any number of bytes up to MAXLINE of what the
client has sent and then looks for the flag and at the size, in the order of the
code; `offset` is `query_offset`, 0 when there is nothing to answer (0 and `npos` lead
to the same branch).  The query is not copied: it is the first `got[c]` bytes of the
connection's stream.  An answer is the length of the query it answers.

A descriptor table is a set of connections: `fork` copies the parent's, `close`
removes from one table, and a connection ends for its client when no table has it
(`Released`).  What is sent after the flag and not read when the server closes makes
the kernel reset the connection, and the client may then see it end without the
answer (`Unread` in `ClientEnd`).  The backlog dies with the last process that has
the listening socket; a child holds a copy of it.

Faults: `AcceptFails` (the loop goes on and forks with descriptor -1), `ForkFails`
(the result -1 of fork is not looked at: the parent closes the connection as if a
child had it), `Crash` (a child dies in the parser), `Kill` and a later `Start` (which
fails, `tcp_listen` returning 0, while orphans keep the port).

### CitationReader

`getInstance` is one action, as it holds the lock of the class.  `citeParse` is the
states `loop` (the test at 68), `resolved` (the host was read and found), `connected`,
`reading`, `closing`; the exceptions that the `catch` at 101 takes are the disjuncts that
go back to `loop`: a host not found, a connect refused or too slow, `Breaks` while
writing or reading, `NoAnswer` (an empty reply makes `fromJson` give null), `CloseFails`.
`hosts[t]` and `ports[t]` are the values of the static fields a thread may see: its own
write leaves one, another thread's adds one, since nothing orders the unlocked reads
after it.  An answer is the length of the query it answers, as in `CiteService`; what
the connection does is a step of that specification.

### CNSQ, CNSQueue, TokenWindow

A ring is a record of `front`, `rear` and `data`, as the struct is; a pointer into it is
a slot number or NULL.  `CNSQueue` begins with `clearQueue` on arbitrary contents.
`held` is the pointer that `deQueue` returned last, for `HeldIntact`; it ends with the
next removal, `clearQueue` and an `enQueueWithDrop` on a full ring included.  The
refinement maps `window` to the elements from `front + 1` to `rear`.

### Predict, Scans

`doc` is the text as the words that `spilitContent` finds, with the bytes each takes,
and `rest` bytes after them in which it finds none.  `pc` is the place in the function:
`create` (the tagger), `fill` (the loop of 617), `take` (618-627), `features` (632-1438),
`store` (1442), `refill` (1443), `parse`.  A word's kind says which neighbour the code
dereferences without a test; `press`, `stop`, `open`, `close`, `quot`, `isbn` and `digits` say
what the scans look for in it.  A row is the numbers of the words it was computed
from (the word, the one before, the one after, those the two scans visit) and what
the scans made of them: `press` for a keyword (thirteen of fifteen are treated alike),
`pare` for a bracket (all three kinds are), `quot` and `isbn`.  `quotTime` and `isbnEffect`
are the two locals that outlive a turn of the loop.  The columns that depend on one
word's letters, or on a dictionary, are abstracted to the word.

### Assembly

The loop of 1460 with `strelem` as a list of word numbers.  `y2(size)` past the end is
any label, or `StepCrashes`.  A citation's field holds the pieces written to it: one
for fields printed with `snprintf`, all of them for `author`, because `spilitName`
writes over what is there.  Of a piece only what decides whether the field starts
with a zero byte is kept (`BlankName`, `BlankText`), since `cnIsEmpty` depends on that
and decides where a new citation begins.  The uninitialized flags `ev` of label 0 are a
choice.  `calls` and `homes` are records for the properties: the pieces given to
`addCitationInfo`, and the citation that `nowNode` pointed to after each, the one it was
written to.  Not modelled: the sizes of `strelem` and of the fields (truncation), the split
of a name list into ten names, the output as JSON.

### Tokenizer, WordMarks

One action per branch of the loop of `spilitContent`; `AtRange`, `AtGap`, `AtOtherType` and
`AtSign` are its conditions, in the code's order.  `i` counts from `currentOffset`, as the
pointer `content+(*currentOffset)` does.  `Return` is lines 84-105 and what `predftEnQueue`
does with the result; a result of 0 ends the splitting, because the next call would
give 0 again.  A word is the positions of its characters, so that the properties can
say which.  `mpredeli` is "unset" where the caller takes over a `nextpre` that was
never written.  `Marks` is the loop of 310-407: `Noted` goes through the word's bytes and the one
behind them; `Signed` is its switch, `Abbr` the three flags of an abbreviation.  `spilitStr`
goes through the word, `Cut` being a turn of its loop.  A character is its class, fifteen of them, so that letters
taken for digits, for brackets and for capitals are told apart.  Square brackets stand
for all three kinds.

### TokenStack, TagText

`nowTag` is an integer, `%` and all.  `OpenTag`, `CloseTag`, `Mismatch`, `Copy` and `Finish` are
the branches of the loop of 189-282.  `stored` has `pcontent`, `offset` and `tags` in one
sequence.  The records `open`, `largest` and `balanced` are the text read with a plain
stack, which no action of the code looks at.  The two readers are operators on the
final state.  Not modelled: loading `token.ini`.

### VirtualContent

An action per function; the place in the caller is `pc`, and `caller` says which of the
three shapes of caller it is (the trainers share one).  Memory is a function from blocks
to who has them, so that a block that was freed may come back to somebody else while
`pcontent` still points to it.  `FreeAndTake` records a free of what is not the text
holder's in `misuse`, and nothing happens after that.  The branches for
`contentType == 1` in `setFileContent` and `parseFile` are in the model, but no caller
reaches them, since all call `initContent` first.

### KHash, DictTable, Dict

A table is a record of the counters and of the three arrays of `kh_t`; a cell keeps the key
and value last written to it whatever its flag says, and nothing reads them.  `Probe` is
the double hashing and `Past` how far it goes; `Site` is the choice in `kh_put` between the
key's cell, a deleted one on the way and the empty one at its end.  `kh_resize` moves the
entries inside the arrays: a state of that is the old flags, the new ones, the arrays and
the entry in hand; `Taken` takes one to hand, `Place` puts it to its cell and takes what
waited there, and `Moved` is the sequence of these states, one for each entry.  Names and
words are sequences of characters in lower case, the hash function is any of a set.
`dbHandleHashDictLoad` is the callback: a key that was there is deleted and the value is
written to its cell.  `hmDictGet` tries the word and then its beginnings down to four
characters.  `DictTable` says the same without a hash table: a name comes with its first
row, goes with its second.  Not modelled: which tables there are, SQL, and the wrap of
`i + inc` in 32 bits, which takes a table of more than two thousand million cells.

### HeadTraining

One file that is worked on again and again; `info` is what `stackData` finds in it, an
increasing list of offsets for each threshold.  `getFeature`, `Merge` (one turn of the
loop at 431), `insertFeatureInfo`, `WriteSample` and `cleanFeature` are the steps of a run;
`Kill` stops it anywhere and keeps what was inserted; an insert may fail and is then
only reported.  `Near` has the read below an empty stack: `data[-1]` is the field `top`, 0
then.  `num` that the query did not set is any of `Garbage`.  `computed`, `finished`, `torn`
and `known` are history.  Not modelled: the thresholds, and the features of a candidate.

## Runs

| run | instance | what it shows |
|---|---|---|
| `citepd_faults` | 2 connections, 2 slots, a flag of two bytes, limit 2 and reads up to 2, one failing accept, one crash, one kill with restart; symmetric | `DescriptorsPrivate`, `ZombiesAnnounced`, `AnswersFirstQuery`, and the promise of `CiteService` (`KeepsPromise`) |
| `citepd_live` | 2 connections, 1 slot, one failing accept, one crash, fair | `Decides`: a finished query is decided; `Reaped`; `BacklogMoves`: a silent client holds up nobody; `ConnectionsEnd`: those that could not get a child end |
| `reader` | one thread that parses with up to 2 tries, one that changes the address; 2 hosts (one blank), 2 ports, 3 texts; fair | `Copies`, `AsksOwnServer`, `Returns` |
| `queue` | 4 slots, 3 elements | `IsWindow`: `TokenWindow` is implemented; `HeldIntact` |
| `predict` | 5 slots, texts up to 5 words of four families, up to 6 of quotations; quotations of 3 words | `RowsAreTheWords`, `Neighbourhood`, `KeywordsOfTheSentence`, `BracketsInSight`, `CarriedOver`, `CrashesOnlyAtEdges` |
| `assembly` | up to 4 words of 3 kinds, 6 labels and one past the end | `PiecesAreTheRuns`, `OnlyLastEmpty`, `LostOnlyWhenOverwritten`, `EarlierFrozen` |
| `assembly_fields` | up to 3 words, 4 labels | violated: an editor becomes an author, a publisher a date |
| `tokenizer` | texts up to 5 characters (6 for sentences) over four sets of classes, words up to 4, abbreviations of 2 letters or 1, room for 2 parts | `WordsCover`, `StopsEarlyOnly`, `PredeliIsLast`, `WordsNoted` |
| `tags` | base 3, 3 bits, texts up to 5 pieces of 7, or up to 7 of 5 | `StoredIsText`, `TagsAreOpen`, `RefusedOrLeftOpen`, `ReferenceAreaFound` |
| `textholder` | 9 blocks, one refused text, all callers, both builds | `NamesOwnBlocks`: nothing freed twice or stale, but in one case; `OnlyRefusalsLeak` |
| `dict` | 4 names, one of them beginning others, 7 words, 3 hash functions, up to 5 rows | `LoadsTable`: `DictTable` is implemented; `LongestBeginning`, `ProbesEnd` |
| `training` | 2 thresholds, up to 2 offsets each of 4, 4 runs, 2 kills, 1 failing insert, 1 deletion | `EveryHeadingOnce`, `HitIsTruth`, `StoreSettles`, `OneOffsetEach` |

Why the bounds are enough.  Descriptors, signals and zombies concern a pair of
children and the parent: with two of each, two children can end on one signal, a
child can inherit another's descriptor, and a slot can be reused.  A flag of two bytes
can be cut, found twice and lie over the limit.  For liveness the framing plays no
part, and one slot is enough for one client to be in another's way.  A thread of the
Java client owns its connections, so that one parser and one other writer of the
address have all interferences; two tries are one that fails and one after it.

A ring of four slots has every relative position of `front` and `rear`, full and empty;
one of five is the smallest whose scans have a nearest, a middle and a farthest word
in sight, and six words overfill both, so that the rings turn, drop and drain with each
kind of word at each place.  Quotations of three words are given up and followed by
another one in six.  Four words with the label past the end give five labels in a row:
every pattern of equal and different neighbours at both ends, and three citations.

A decision of `spilitContent` looks at one character, the one after it, and the
first one behind a gap; five characters hold a word, a gap with two signs and a next
word.  Six hold a capital, a letter more than an abbreviation has, a stop and the next
word.  Three bits in base three hold one tag or two, wrap at a second and refuse a
third, so seven pieces can go over the limit and come back; the code's 32 bits in base
20 hold seven and wrap at an eighth.  Nine blocks are a refused text, a text in use and
one block of the rest of the program.

Five rows make the hash table grow from none to three cells and from three to eleven,
with deleted cells on the way of others, and let a name be read three times; the hash
functions put all keys on one cell, all on one of three, and apart.  Offsets up to 4
with a width of 2 are near and far in every order; two kills and one failure can leave
the wrong rows under the right number, which one alone cannot; four runs are two to do
harm, one to heal and one to see it healed.

`CHECK_DEADLOCK FALSE` is set where the system may stop: a server that waits for
connections when all clients are done, a function that has returned, a bound that is
used up.  `queue` checks deadlock.

### Fairness

`Citepd`: weak fairness of the parent, of the handler and of each child, because the
kernel schedules runnable processes and delivers pending signals, and of a client's
step to its end once it has sent its query, because `cpcli` does nothing but read.
Clients are never obliged to send or to close; `accept`, `fork` and the parser are never
obliged to fail or to succeed.

`CitationReader`: weak fairness of what a thread does when nothing breaks, and of the
service's decision about a connection it got a query on, which is what `citepd_live`
shows of the server for queries that end in their flag; exceptions are never obliged to
come.  The other modules are of one thread each and state no liveness; that the merge
and the probing end is said by `OneOffsetEach` and `ProbesEnd`.

### Disagreements with comments

`assembly_fields` ends in a violation of two comments: line 213 of `citpred.cc` marks case 6
as the editor, and the text is written into `author`; line 237 marks case 12 as the
publisher, and the text is written into `date`.  `editor` and `publisher` of a citation are
therefore always empty, although `rpc_query` has code to answer with them.

Three more are part of properties that hold of the code as it is:

- lines 666-668 of `citpred.cc` say that a `stopEffect` of 2 is a comma and one of 1 the end
  of a sentence.  Lines 781-782 set it to the larger `stopflag` of the words passed, which
  is 1 for a comma and 2 for the end of a sentence, as `queue.h` 44 says: the scan for
  keywords stops at 2, and a keyword behind a comma is weighed with 1.
  `KeywordsOfTheSentence` and `Scans` say what the code does, against the comment;
- line 640 of `citpred.cc` announces a traversal of all the past and next information; the
  loops at 671 and 804 stop before the farthest token of each window (`Neighbourhood`);
- line 1490 sets `noparse` "for release"; a release build of `CitationInfoPredictFile` frees
  its text under both names, because `cleanContent` resets `noparse` before it asks for it
  (`NamesOwnBlocks` excepts this case).  `debuginfo.h` sets `DEBUGFLAG` to 1, and the service
  only calls `CitationInfoPredictString`: neither reaches it.

### What the runs show besides

Server and clients: a child that dies, a fork that fails and a parent that is killed cost
the connections concerned and no other.  The Java client adds the citations of a text a
second time if its connection would not close the first time (`Copies` says how often).

Predictor: a text that ends in the word "in" or "ph", or that holds no word, or a missing
model, ends the child without an answer (`CrashesOnlyAtEdges` names exactly these cases).
The last word of a sentence takes the keywords of the next one for its own, because the
scan of the words to come begins behind it.  A bracket opened out of sight counts as
none, and two that follow each other or nest may cancel in the wrong order
(`BracketsInSight` says when the flag is right).  The end of a quotation of more than ten
words is taken for the beginning of another.  One ISBN marks all the citations that
follow (`CarriedOver`).  The label past the end never reaches an earlier citation.

Tokenizer: a text that begins with a delimiter, a hyphen and a digit is not parsed at
all, and one with a word of more than 256 characters only up to it (`StopsEarlyOnly`).  An
abbreviation goes on through digits, blanks and signs, because the second test of 400 is
true of every character: a stop belongs to one if it comes soon enough after the last
letter that began a run (`WordsNoted`).  A word of exactly 256 characters is taken, and
its final zero written one byte past the array of its caller; `WordsCover` says that no
word is longer, so that it is this one byte.  A word with nine changes from a lower letter, a
digit or a sign to another kind needs more than the ten places of `spstr`.

Text and tags: `pclen`, which `virtualcontent.c` 40 calls the pure content's length, is one
more after a parse, and `getReferenceEndOffset` needs that one to find the end of an area
that reaches to the end of the text (`ReferenceAreaFound`); each text that `parseFile`
refuses costs its four blocks.  A text that nests deeper than the integer holds, which eight
tags may and nine do, is refused when it closes them, balanced or not.  If it never closes the surplus
ones it is accepted, and stored with wrong tags: in the instance, with three bits in base
three, `<r><r><s>x</r></r>` loses the push of `s`, and `x` has two tags
(`RefusedOrLeftOpen`).

Dictionaries: a name that its table has twice, in any case of letters, is not in the
dictionary, and one it has three times is (`LoadsTable`); an entry whose value is 0 hides
the shorter beginnings of a word.

Training: two kills, or a kill and a failing insert, can leave rows that are taken for the
candidates of a file and are not; one alone makes every later run merge and insert
again, until the trainer for the end of the references deletes the rows (`StoreSettles`).
Without a number to read, and with one on the stack that fits, a run takes its rows for
the candidates; if nothing went wrong before, these are none at all, and the file has no
candidates in that run (`HitIsTruth`).  A heading among the first ten characters of a text
makes empty stacks look as if they had an offset at 0: the candidates there may get ranks
that no offset stands for, but none is lost, moved or doubled (`EveryHeadingOnce`).  What
the database gives is trusted for texts without such a heading only (`NoneEarly`).

## Theorems

For every value of the constants that satisfies the assumptions of the module:

| theorem | module | statement |
|---|---|---|
| `TypeCorrect` | `CitepdProofs` | `[]TypeOK` |
| `NoForeignDescriptor` | | `[]DescriptorsPrivate` |
| `NoForgottenZombie` | | `[]ZombiesAnnounced` |
| `AnswersAreFramed` | | `[]AnswersFirstQuery` |
| `PromiseKept` | | `KeepsPromise`: `Citepd` implements the safety of `CiteService` |
| `TypeCorrect` | `CitationReaderProofs` | `[]TypeOK` |
| `CopiesCounted` | | `[]Copies` |
| `TriesAll` | | `[]GivesUpLate` |
| `OwnServer` | | `[]AsksOwnServer` |
| `RowsRight` | `PredictProofs` | `[]RowsAreTheWords` |
| `NeighboursRight` | | `[]Neighbourhood` |
| `CrashesAtEdges` | | `[]CrashesOnlyAtEdges` |
| `CarriedRight` | | `[]CarriedOver` |
| `KeywordsRight` | | `[]KeywordsOfTheSentence` |
| `BracketsRight` | | `[]BracketsInSight` |
| `RingInv`, `RingTypeCorrect` | | the ring's indices stay in the array |
| `RingIsWindow` | | `IsWindow`: `CNSQueue` implements `TokenWindow` |
| `HeldSlotIntact` | | `HeldIntact` |
| `RingPeeksAgree` | | `nextNElem` and `pastNElem` agree |
| `TypeCorrect` | `AssemblyProofs` | `[]TypeOK` |
| `FinishedStay` | | `EarlierFrozen` |
| `EmptyAtEndOnly` | | `[]OnlyLastEmpty` |
| `WordsInPieces`, `PiecesOneLabel`, `RunsAreCut` | | `[]PiecesAreTheRuns` and its parts |
| `OneRunInBuffer` | | what is in `strelem` is one run |
| `NothingElseLost` | | `[]LostOnlyWhenOverwritten` |
| `WordsCovered` | `TokenizerProofs` | `[]WordsCover` |
| `StopsEarly` | | `[]StopsEarlyOnly` |
| `PredeliRight` | | `[]PredeliIsLast` |
| `NotesRight` | | `[]WordsNoted` |
| `TextRight` | `TagTextProofs` | `[]StoredIsText` |
| `TagsRight` | | `[]TagsAreOpen` |
| `RefusalsRight` | | `[]RefusedOrLeftOpen` |
| `AreaRight` | | `[]ReferenceAreaFound` |
| `OwnBlocks` | `StoreProofs` | `[]NamesOwnBlocks` |
| `RefusalsLeak` | | `[]OnlyRefusalsLeak` |
| `ProbingEnds` | | `[]ProbesEnd` |
| `LoadsRows` | | `LoadsTable`: `Dict` implements `DictTable` |
| `FindsLongest` | | `[]LongestBeginning` |
| `OddNamesOnly` | | of `DictTable`: a name is there if read an odd number of times |
| `Settles` | `HeadTrainingProofs` | `[]StoreSettles` |
| `HeadingsOnce` | | `[]EveryHeadingOnce` |
| `MergeEnds` | | `[]OneOffsetEach` |
| `RowsTrusted` | | `[]HitIsTruth` |

The assumptions are on the constants only, each named in the module that declares them
(`CitepdAssumption`, `FlagAssumption`, `CNSQAssumption`, `PredictAssumption`, ...).  Those of
the data say that texts are sequences, that a word takes at least one byte, that there
are finitely many thresholds and that the offsets found for one increase; those of the
sizes, that a ring has three slots for the predictor, that the base of the stack of tags
is more than one and its integer holds the base.  For the hash table the list of primes
is any that begins with 0 and goes on with increasing primes above 2, as
`__ac_prime_list` does (`PrimesAssumption`), and there are at most half as many rows as
its last prime, so that `kh_resize` never looks behind it (`DictAssumption`).

`Citepd`.  None of the invariants is inductive by itself.  `IInv` adds to them
what a step relies on: a child in `parse` or `write` holds the offset of the first flag
in what it has read (`QueriesFramed`); a connection not yet accepted is in no
descriptor table and one not yet forked for is in no child's (`DescriptorsFresh`), or
else `fork` would copy a connection that a child has already; every child was forked
by a parent that had installed `sig_chld` (`HandlerInPlace`), or else its end would leave
a zombie and no signal.  The lemmas `FirstFlagStays` and `FlagNeedsBytes` say that a
first flag once found stays the first when more bytes come.  The refinement needs
`PromiseInv`: who serves a connection holds it (`Holding`), so that it cannot end under
him; what was read is within the limit and one read (`Bounded`), so that an answer is one
the promise allows; and a connection that is open, and not given up, is about to be
forked for, is served, or is settled: answered, or of a client that need not be
(`Accounted`), so that one which ends with nothing may.  `ReadOnce` and `FirstFlagUnique`
connect a flag found at the end of reading to the one the promise is about;
`StepKeepsPromise` maps every action to one of `CiteService` or to a stutter.

`CitationReader`.  `IInv` is the types, `Copies`, the counters of a call (`Counted`) and that
what a thread has read is among what it may see (`ReadFromSeen`).  There is a lemma for
each kind of step; that the service's steps leave the client alone is `ServeStep`.

`CNSQueue`.  `Turn` gives `%` on an index at most one turn past the array, and `Size`,
`NextSlot`, `SlotOf` and `FullEmpty` follow from it; `EnQueued`, `DeQueued` and `Cleared` say
what each operation does to the window, `Peek` what looking into it finds; they are
stated for a ring of any elements (`QueuesOf`), and `Predict` uses them too.  The
invariant needs, besides the types, that the held pointer is `front`: the one slot
`enQueue` never writes to.

`Predict`.  `IInv` is `Kinds` (types), `Progress` (the words to come are those behind the
ones taken, as far as the text is split, and the spans are those of the words taken),
`Places` (at each place of the loop, how many rows there are and how full both rings
are) and `Told` (every row is that of its word).  How full a ring is depends on the
word's place alone, `Supplied` and `GoneBy`, and that is why a row does; `Edges` adds for
the third theorem that a row of the last word was computed without looking at the next.
`Carried` says of the two locals that outlive a turn what they have seen of the text:
`isbnEffect` whether an ISBN came by, `quotTime` how many words ago the last quotation mark
was (`Counting`), as long as no quotation was too long.  `Scanned` says of every row that it
has what the scans make of the words in sight.  Each scan is then shown once, for any
list of words, to fit a statement that grows with the list: `AheadSays` and `BehindSays`
where the nearest keyword of the sentence is, `BracketsSay` that the flag less the cache
is what the depth of the brackets has grown by since the words in sight began, and the
flag what it has grown by since before the farthest opening one.

`Assembly`.  The list is handled by lemmas on the operations: `NodeAdded`, `AuthorWritten`
and `FieldWritten` give `InfoAdded`, that a piece writes into the last citation or into a
new one that follows a citation which is not empty; `FinishedStay` and `EmptyAtEndOnly` are
that lemma along the steps.  For the pieces, the properties say nothing of the piece
under way, so they are not inductive: `Tiles` adds that `strelem` holds the words from
the end of the last piece to the loop's counter, and `Labelled` that all of them, and
the next word, have the label `lastid`, and that the last piece had another.  `Kept` is
`LostOnlyWhenOverwritten` with the bounds of `homes`, each piece in the citation it went to:
`AuthorsKept`, `OthersKept` and `InfoKept` say what a write leaves in every citation but the
field it is for, and that a piece just written is in that field of the current one, and
`PieceKept` adds the piece to the two records.

`Tokenizer`.  The properties speak of the words found, and each action changes the one
under way.  `Underway` says of this one that its characters are the letters passed since
the last word, in order, and that as long as it has not begun there were only
delimiters.  `Straight` says what makes a gap a gap: if no connector is pending the last
byte passed was the word's own.  `Ended` keeps, for what follows the loop, why it was left
(`RangeAt`, `GapAt`, a letter of the other kind, the end); from it `GapTail` shows that the search
for delimiters behind a word never runs past a connector, and so which delimiter is the
last one before the next word (`TailRight`).  `WordsSay` says of each word found that no
delimiter follows its bytes: only then is the first byte of the next word, which the loop
over the signs looks at too, none of them (`MarksSayBytes`), and only the first word can be
the one at which a text is given up (`NoWordLeft`).  `PredelisSay` is `PredeliIsLast` with the
delimiter kept for the word to come.  What is noted for a word needs no behaviour: `MarksSay`
is what the flags are after each byte, `CutsSay` what the parts are after each character,
and `MarkOne` and `CutOne` are the steps.

`TagText`.  Nothing in the code says what the integer is once a tag did not fit: it may
have dropped it, or have wrapped around.  `Stack` does: as long as all the tags that were
open at once fitted, the integer is their `Number`; afterwards it has fewer digits than
tags are open (`Fits`), so that it runs out before the sequence of open tags does: either
a closing tag finds it empty, and the text is refused, or the text ends with a tag open.  `Opening`, `Closing` and
`Mismatching` are what the three kinds of tag do to the two; `Unstacked` and `FrontAndLast`
take the last tag off a `Number`.  `Copied` says that what is stored are the text's
characters in its order, and that what lies between two of them begins with `<` and ends
with `>` (`Gap`).  `OpenTagsExist` shows that the function the trainers' search is written
with is defined for every integer, because popping makes it smaller.

`Dict`.  The invariant `MInv` says of the table (`TableOK`) that its size is 0 or one of the
primes, that its counters are the numbers of live and of used cells (`LiveIn`, `UsedIn`),
and `Sound`: probing for the key of a live cell comes to this cell before any empty one,
and no key is in two.  Since the upper
bound is below the size there always is an empty cell (`TableSizes`), and since the size
is prime probing comes to it: `Prime` is Euclid's lemma, by the least counterexample,
`ProbesApart` says that no two probes of one round fall together, and `ProbesReach`, by
counting, that they fall on all cells.  So `Stopping` holds, `GetSays` and `SiteSays` say what
`kh_get` and `kh_put` find, and `Enters`, `Deletes` and `SetsValue` what a change of one cell
does to `Entries`, what is in the table; a deleted cell stays used, or else the keys
behind it were lost.  For the rehashing, `Moving` relates the state after so many entries
to the table before: what is live in the old flags or in the new ones, or in hand, are
the old entries, each once; what is live in the new flags is `Sound` for the new size; and
as many are left as were not moved.  The hard case of `Places` is a cell where an old
entry waits: it comes to hand with its key and value as the new one goes in.  After as
many steps as there are entries none is left (`ResizeSays`).  `RoomLeft` shows that
resizing always helps: the size it rounds to has room for the entries and one more.
`LoadedSays` puts these together for a row and `RowFound` reads it through the lookup; that
is `Row` of `DictTable`, and `FindsLongest` follows from `OddNamesOnly` through the refinement.

`VirtualContent`.  `Pointed` says which of the four pointers name blocks, in which state
of the holder, and that these are its own and, but for the text under two names,
different; `Leaked` counts the blocks it owns and does not name, four for each refused
text.  `Takes` and the lemmas on cardinalities (`OneMore`) carry the count through the
four allocations.

`HeadTraining`.  For `Settles`, `HInv` adds to `StoreSettles` what holds until a merge is
finished: the rows are the candidates so far, or none (`Unfinished`).  For `HeadingsOnce`,
`Merged` says of each stack which of its offsets have their ranks so far, near their
candidates and in order, and that further ranks were only given once it was empty and
near the beginning (`Ranked`); of the candidates, that each is at an offset of one of its
stacks (`Placed`), and that they go backwards and what is left lies before them
(`Backwards`).  That there is a largest top at all is `LargestExists`, from the
well-foundedness of `<`; `TakenNear` is that what a turn pops from a stack is
near its candidate, or the candidate near the beginning, and `NoneBelow` that without
headings there no stack is ever popped below its bottom.  For `MergeEnds`, every turn takes the largest top, so that there are
fewer offsets left than before (`TurnUsesOffset`).  For `RowsTrusted` it must be known
what rows are left when something went wrong once: `OneTear` says that during a merge its
candidates so far are the last rows, or that this merge has lost one already, and after
it that as many rows as there are candidates are the candidates.  That needs two merges
of one text to go the same way (`SameWay`), so that the rows of an interrupted one are
the beginning of what a whole one gives (`PartOfWhole`); `Gives` says of a sequence of
candidates that it is the merge's way.  This is shown where `NoneEarly` holds, since an
empty stack is then not near (`OnlyLeftNear`) and the tops alone decide.  That rows taken
without a number are none (`UnreadStays`) follows from `Unfinished`: as long as nothing is
torn, rows stay only behind a merge that has ended, and that left a number.

Induction over numbers is done with sets: a set that has 0 and with each number the next
one has them all (`Induction`, from the well-foundedness of `<`).  Recursive functions are
taken apart in the same way: one shows first that a function with the equations exists
for each length (`NumbersExist`, `Scan`, ...) and then that the one `CHOOSE` gives has them.

Only model-checked: liveness (`Decides`, `BacklogMoves`, `ConnectionsEnd`, `Reaped`, `Returns`),
because the provers do not handle fairness.  Every invariant, every action property and
every refinement that a passing run checks has a theorem.

## Not modelled

The repository's C, C++ and Java files have 45230 lines, of which some 33000 are not its
own: CRF++ with its generated wrappers for other languages, `sqlite3.h`, cJSON, inih.  Of
its own some 12000, about 2500 are modelled.  The others are, and why they are left:

- `eftfun.c`, `hftnpse.c`, `crftfun.c` up to its copy of `predftEnQueue`, `common.c`,
  `minEditDistance.c`, `myMath.c`: several hundred small functions of one string or one offset
  ("is this a year", "how far is the next capital"), without state.  A definition of
  each would repeat its table of words; there is nothing two steps could disagree about.
- `crftctl.c`: the sampler.  Its loop and its scans are those of `citpred.cc` (a copy of
  them), so that `Predict`, `Scans` and `WordMarks` are about it as well, and it adds a column
  with the tag of a word.  The differences are in what is printed.
- of `citpred.cc`, the columns of the feature row that look at one word (1058-1438), the
  dictionary lookups of a word and its parts (416-541), and printing the citations.  The
  loops of 433-527 look up every run of parts but keep the last result only, so that only
  the endings of a word count; that is read off the code and not checked here.
- `hftctl.c` and `eftctl.c` but for the parts named above: thresholds and distances of
  headings, and the trainer for the end of the reference area.
- `ng.cc` repeats the loop of `citepd` around a pipe to a jar and is not built.
- `main.cc`, `dirtrav.c`, `argcvhttp.cc`, `debuginfo.c`: options, files, formatting.
- The model of CRF++ is a choice of any labels; sqlite keeps what was inserted.

Left for a continuation: the composition of `Tokenizer`, `Predict` and `Assembly` in one
behaviour.
