------------------------------ MODULE Samples ------------------------------
(***************************************************************************)
(* Samples and dictionaries, in the store and in the detector.             *)
(*                                                                         *)
(* The tables samples and dictionary keep what admins taught the bot; the  *)
(* detector keeps what it made of them: the classifier's counters, the     *)
(* tokenized spam samples for the similarity check, the excluded tokens    *)
(* and the stop words.  updateSample and removeSample change both sides    *)
(* under the detector's lock.  ReloadSamples (any web request, and every   *)
(* change of a dictionary) reads the store query by query WITHOUT that     *)
(* lock and replaces the detector's side afterwards, in two locked calls.  *)
(*                                                                         *)
(* On SQLite the readers of samples keep their cursors open until          *)
(* LoadSamples has drained them, and an open cursor makes every write fail *)
(* with SQLITE_BUSY (journal_mode DELETE, no busy_timeout).  Postgres has  *)
(* neither effect.                                                         *)
(***************************************************************************)
EXTENDS Classifier, Sequences

CONSTANTS
    Messages,             \* sample texts
    Submitted,            \* texts admins send to updateSample and removeSample
    TokensOf,             \* TokensOf[m]: the tokens of a text before exclusion
    Words,                \* entries admins add to the dictionary, as either type
    Content,              \* Content[f]: what the text file f holds
    Migrations,           \* bound: the sets of files there may be at a start
    Reloaders,            \* web requests that may run ReloadSamples at the same time
    ReadersBlockWriters,  \* TRUE: SQLite, FALSE: Postgres
    MaxLearned            \* bound: how often one text is learned between two loads

\* The files of samples, in the order they are looked for.
SampleFiles ==
    <<[name |-> "spam-samples", row |-> [type |-> "spam", origin |-> "preset"]],
      [name |-> "ham-samples", row |-> [type |-> "ham", origin |-> "preset"]],
      [name |-> "spam-dynamic", row |-> [type |-> "spam", origin |-> "user"]],
      [name |-> "ham-dynamic", row |-> [type |-> "ham", origin |-> "user"]]>>

ASSUME SamplesConstants ==
    /\ IsFiniteSet(Messages) /\ IsFiniteSet(Tokens)
    /\ Submitted \subseteq Messages
    /\ TokensOf \in [Messages -> SUBSET Tokens]
    /\ \A i \in DOMAIN SampleFiles : Content[SampleFiles[i].name] \subseteq Messages
    /\ Content["stop-words"] \subseteq Words /\ Content["exclude-tokens"] \subseteq Words
    /\ Content["spam-samples"] # {} /\ Content["ham-samples"] # {}
    /\ Content["spam-samples"] \intersect Content["ham-samples"] = {}
    /\ Migrations \subseteq SUBSET DOMAIN Content
    /\ ReadersBlockWriters \in BOOLEAN
    /\ MaxLearned \in Nat

VARIABLES
    samples,         \* table samples: the row of each text, NoRow without one
    ignoredWords,    \* table dictionary, type ignored_word
    stopPhrases,     \* table dictionary, type stop_phrase
    classifier,      \* Detector.classifier
    tokenizedSpam,   \* Detector.tokenizedSpam
    excludedTokens,  \* Detector.excludedTokens
    stopWords,       \* Detector.stopWords
    pc,              \* pc[r]: what ReloadSamples of r does next
    read,            \* read[r]: the samples its readers return
    readIgnored,     \* readIgnored[r]: the ignored words it read
    readPhrases,     \* readPhrases[r]: the stop phrases it read
    learned,         \* history: learned[k][m], times m was learned as k less times unlearned
    spoiled,         \* history: since the last load a removal named a text not learned as that class
    reloadFailed     \* history: a ReloadSamples reported an error since the start

store == <<samples, ignoredWords, stopPhrases>>
lists == <<excludedTokens, stopWords>>
detector == <<classifier, tokenizedSpam, lists>>
reload == <<pc, read, readIgnored, readPhrases, reloadFailed>>
history == <<learned, spoiled, reloadFailed>>
vars == <<store, detector, reload, learned, spoiled>>

----------------------------------------------------------------------------
NoRow == [type |-> "none", origin |-> "none"]

Rows == [type : Classes, origin : {"preset", "user"}]

\* No text read, or none learned.
None == [k \in Classes |-> [m \in Messages |-> 0]]

\* tokenize, when the tokens in excl are excluded.
Tokenize(m, excl) == TokensOf[m] \ excl

Doc(m) == Tokenize(m, excludedTokens)

\* The texts counted in docs, one by one.
Copies(docs) == UNION {{<<x[1], x[2], i>> : i \in 1 .. docs[x[1]][x[2]]} : x \in Classes \X Messages}

\* What LoadSamples makes of the texts counted in docs.
Loaded(docs, excl) == LearnAll(Copies(docs), [m \in Messages |-> Tokenize(m, excl)])

TokenizedSpam(docs, excl) ==
    {Tokenize(m, excl) : m \in {m \in Messages : docs["spam"][m] > 0}}

PresetsPresent ==
    \A k \in Classes : \E m \in Messages : samples[m] = [type |-> k, origin |-> "preset"]

\* A reader that returned a row holds its cursor until LoadSamples has drained it.
WritersBlocked ==
    ReadersBlockWriters /\ \E r \in Reloaders : read[r] # None

----------------------------------------------------------------------------
(* updateSample and removeSample: the detector's lock is held over the     *)
(* call to the store, so each is one step for everybody else.              *)

\* The sample is learned, but not added to the list of the similarity check.
UpdateOnlyClassifier(k, m) ==
    /\ ~WritersBlocked
    /\ learned[k][m] < MaxLearned
    /\ samples' = [samples EXCEPT ![m] = [type |-> k, origin |-> "user"]]
    /\ classifier' = Learn(classifier, k, Doc(m))
    /\ learned' = [learned EXCEPT ![k][m] = @ + 1]
    /\ UNCHANGED <<ignoredWords, stopPhrases, tokenizedSpam, lists, reload, spoiled>>

\* Append replaced the row of the text, if it had one.  When Append fails nothing changes.
UpdateSample(k, m) ==
    /\ ~WritersBlocked
    /\ learned[k][m] < MaxLearned
    /\ samples' = [samples EXCEPT ![m] = [type |-> k, origin |-> "user"]]
    /\ classifier' = Learn(classifier, k, Doc(m))
    /\ tokenizedSpam' = IF k = "spam" THEN tokenizedSpam \union {Doc(m)} ELSE tokenizedSpam
    /\ learned' = [learned EXCEPT ![k][m] = @ + 1]
    /\ UNCHANGED <<ignoredWords, stopPhrases, lists, reload, spoiled>>

\* Bound: no removal follows one that named a text not learned, until the next load.
Removal(k, m) ==
    /\ ~spoiled
    /\ spoiled' = (learned[k][m] = 0)
    /\ UNCHANGED <<ignoredWords, stopPhrases, tokenizedSpam, lists, reload>>

\* unlearn succeeded and DeleteMessage too, which looks at the text and not at the type.
RemoveSample(k, m) ==
    /\ Removal(k, m)
    /\ Unlearnable(classifier, k, Doc(m))
    /\ samples[m] # NoRow
    /\ ~WritersBlocked
    /\ samples' = [samples EXCEPT ![m] = NoRow]
    /\ classifier' = Unlearn(classifier, k, Doc(m))
    /\ learned' = [learned EXCEPT ![k][m] = @ - 1]

\* The failed removal does not learn the sample again.
RemoveWithoutRelearn(k, m) ==
    /\ Removal(k, m)
    /\ Unlearnable(classifier, k, Doc(m))
    /\ classifier' = Unlearn(classifier, k, Doc(m))
    /\ UNCHANGED <<samples, learned>>

\* unlearn succeeded, the store failed or has no such row: the sample is learned again.
RemoveNotStored(k, m) ==
    /\ Removal(k, m)
    /\ Unlearnable(classifier, k, Doc(m))
    /\ classifier' = Learn(Unlearn(classifier, k, Doc(m)), k, Doc(m))
    /\ UNCHANGED <<samples, learned>>

\* unlearn failed: its error is returned and the counters stay as it left them.
RemoveNotUnlearned(k, m) ==
    /\ Removal(k, m)
    /\ ~Unlearnable(classifier, k, Doc(m))
    /\ classifier' \in FailedUnlearn(classifier, k, Doc(m))
    /\ UNCHANGED <<samples, learned>>

----------------------------------------------------------------------------
(* ReloadSamples and the requests that run it.                             *)

\* What ReloadSamples does after each of its steps.
After == [idle |-> "stats", stats |-> "presetSpam", presetSpam |-> "presetHam",
          presetHam |-> "userSpam", userSpam |-> "userHam", userHam |-> "stopWords",
          stopWords |-> "excluded", excluded |-> "load", load |-> "loadStopWords",
          loadStopWords |-> "idle"]

Step(r, from) == pc[r] = from /\ pc' = [pc EXCEPT ![r] = After[from]]

\* A change of the table that no reload follows.
AddWithoutReload(r, w) ==
    /\ pc[r] = "idle"
    /\ ~WritersBlocked
    /\ \/ stopPhrases' = stopPhrases \union ({w} \ ignoredWords) /\ UNCHANGED ignoredWords
       \/ ignoredWords' = ignoredWords \union ({w} \ stopPhrases) /\ UNCHANGED stopPhrases
    /\ UNCHANGED <<samples, detector, reload, learned, spoiled>>

\* An entry may be of both types.
AddToEither(r, w) ==
    /\ Step(r, "idle")
    /\ ~WritersBlocked
    /\ \/ stopPhrases' = stopPhrases \union {w} /\ UNCHANGED ignoredWords
       \/ ignoredWords' = ignoredWords \union {w} /\ UNCHANGED stopPhrases
    /\ UNCHANGED <<samples, detector, read, readIgnored, readPhrases, history>>

\* The dictionary handlers change the table first.  An entry that is there as the other type
\* stays what it is (INSERT OR IGNORE), and the answer is that it was added.
AddDictionaryEntry(r, w) ==
    /\ Step(r, "idle")
    /\ ~WritersBlocked
    /\ \/ stopPhrases' = stopPhrases \union ({w} \ ignoredWords) /\ UNCHANGED ignoredWords
       \/ ignoredWords' = ignoredWords \union ({w} \ stopPhrases) /\ UNCHANGED stopPhrases
    /\ UNCHANGED <<samples, detector, read, readIgnored, readPhrases, history>>

\* An entry that is gone already is an error, and nothing is reloaded.
DeleteDictionaryEntry(r, w) ==
    /\ Step(r, "idle")
    /\ ~WritersBlocked
    /\ w \in stopPhrases \union ignoredWords
    /\ stopPhrases' = stopPhrases \ {w}
    /\ ignoredWords' = ignoredWords \ {w}
    /\ UNCHANGED <<samples, detector, read, readIgnored, readPhrases, history>>

\* PUT /samples.
Reload(r) ==
    /\ Step(r, "idle")
    /\ UNCHANGED <<store, detector, read, readIgnored, readPhrases, reloadFailed, learned, spoiled>>

\* Stats finds preset samples of both classes.
CheckStats(r) ==
    /\ Step(r, "stats")
    /\ PresetsPresent
    /\ UNCHANGED <<store, detector, read, readIgnored, readPhrases, history>>

\* A reload that leaves the dynamic samples out.
ReadPresetSamples(r, step, k, o) ==
    /\ Step(r, step)
    /\ read' = [read EXCEPT ![r][k] =
                  [m \in Messages |-> IF o = "preset" /\ samples[m] = [type |-> k, origin |-> o]
                                      THEN @[m] + 1 ELSE @[m]]]
    /\ UNCHANGED <<store, detector, readIgnored, readPhrases, history>>

\* The query of one Reader.
ReadSamples(r, step, k, o) ==
    /\ Step(r, step)
    /\ read' = [read EXCEPT ![r][k] =
                  [m \in Messages |-> IF samples[m] = [type |-> k, origin |-> o] THEN @[m] + 1 ELSE @[m]]]
    /\ UNCHANGED <<store, detector, readIgnored, readPhrases, history>>

\* The dictionary's Reader reads everything and keeps no cursor.
ReadStopWords(r) ==
    /\ Step(r, "stopWords")
    /\ readPhrases' = [readPhrases EXCEPT ![r] = stopPhrases]
    /\ UNCHANGED <<store, detector, read, readIgnored, history>>

ReadExcluded(r) ==
    /\ Step(r, "excluded")
    /\ readIgnored' = [readIgnored EXCEPT ![r] = ignoredWords]
    /\ UNCHANGED <<store, detector, read, readPhrases, history>>

\* The stats or a reader fail, or a preset is missing: the open readers are closed.
ReloadFails(r) ==
    /\ pc[r] \notin {"idle", "load", "loadStopWords"}
    /\ pc' = [pc EXCEPT ![r] = "idle"]
    /\ read' = [read EXCEPT ![r] = None]
    /\ readIgnored' = [readIgnored EXCEPT ![r] = {}]
    /\ readPhrases' = [readPhrases EXCEPT ![r] = {}]
    /\ reloadFailed' = TRUE
    /\ UNCHANGED <<store, detector, learned, spoiled>>

\* The samples are tokenized before the excluded tokens are replaced.
LoadSamplesFirst(r) ==
    /\ Step(r, "load")
    /\ excludedTokens' = readIgnored[r]
    /\ classifier' = Loaded(read[r], excludedTokens)
    /\ tokenizedSpam' = TokenizedSpam(read[r], excludedTokens)
    /\ learned' = read[r]
    /\ spoiled' = FALSE
    /\ read' = [read EXCEPT ![r] = None]
    /\ readIgnored' = [readIgnored EXCEPT ![r] = {}]
    /\ UNCHANGED <<store, stopWords, readPhrases, reloadFailed>>

\* LoadSamples, under the lock: reset, excluded tokens, then the samples.
LoadSamples(r) ==
    /\ Step(r, "load")
    /\ excludedTokens' = readIgnored[r]
    /\ classifier' = Loaded(read[r], readIgnored[r])
    /\ tokenizedSpam' = TokenizedSpam(read[r], readIgnored[r])
    /\ learned' = read[r]
    /\ spoiled' = FALSE
    /\ read' = [read EXCEPT ![r] = None]
    /\ readIgnored' = [readIgnored EXCEPT ![r] = {}]
    /\ UNCHANGED <<store, stopWords, readPhrases, reloadFailed>>

\* LoadStopWords takes the lock again.
LoadStopWords(r) ==
    /\ Step(r, "loadStopWords")
    /\ stopWords' = readPhrases[r]
    /\ readPhrases' = [readPhrases EXCEPT ![r] = {}]
    /\ UNCHANGED <<store, classifier, tokenizedSpam, excludedTokens, read, readIgnored, history>>

----------------------------------------------------------------------------
(* Start and crash.  Text files that are found are imported, one           *)
(* transaction each, and renamed; one that is put back, or was not renamed *)
(* before a crash, is imported again.  Then everything is read, before any *)
(* other goroutine runs; there is no start without presets.                *)

\* Import: the rows of the dataset go, the texts of the file replace rows of any kind.
Import(rows, row, texts) ==
    [m \in Messages |-> IF m \in texts THEN row ELSE IF rows[m] = row THEN NoRow ELSE rows[m]]

\* migrateSamples.
Migrated(rows, files) ==
    LET after(t, f) == IF f.name \in files THEN Import(t, f.row, Content[f.name]) ELSE t
    IN  after(after(after(after(rows, SampleFiles[1]), SampleFiles[2]), SampleFiles[3]), SampleFiles[4])

\* migrateDicts: the stop words first, then the excluded tokens; the last import of a word
\* decides its type.
MigrateDicts(files) ==
    LET stop   == IF "stop-words" \in files THEN Content["stop-words"] ELSE stopPhrases
        kept   == IF "stop-words" \in files THEN ignoredWords \ Content["stop-words"] ELSE ignoredWords
        ignore == IF "exclude-tokens" \in files THEN Content["exclude-tokens"] ELSE kept
    IN  /\ ignoredWords' = ignore
        /\ stopPhrases' = stop \ ignore

\* The texts of each class in a table, once each.
Stored(rows) == [k \in Classes |-> [m \in Messages |-> IF rows[m].type = k THEN 1 ELSE 0]]

Restart(files) ==
    /\ samples' = Migrated(samples, files)
    /\ MigrateDicts(files)
    /\ PresetsPresent'
    /\ excludedTokens' = ignoredWords'
    /\ classifier' = Loaded(Stored(samples'), ignoredWords')
    /\ tokenizedSpam' = TokenizedSpam(Stored(samples'), ignoredWords')
    /\ stopWords' = stopPhrases'
    /\ pc' = [r \in Reloaders |-> "idle"]
    /\ read' = [r \in Reloaders |-> None]
    /\ readIgnored' = [r \in Reloaders |-> {}]
    /\ readPhrases' = [r \in Reloaders |-> {}]
    /\ learned' = Stored(samples')
    /\ spoiled' = FALSE
    /\ reloadFailed' = FALSE

\* The first start, on empty tables and with the files of presets.
Init ==
    /\ samples = Migrated([m \in Messages |-> NoRow], {"spam-samples", "ham-samples"})
    /\ ignoredWords = {} /\ stopPhrases = {}
    /\ excludedTokens = {} /\ stopWords = {}
    /\ classifier = Loaded(Stored(samples), {})
    /\ tokenizedSpam = TokenizedSpam(Stored(samples), {})
    /\ pc = [r \in Reloaders |-> "idle"]
    /\ read = [r \in Reloaders |-> None]
    /\ readIgnored = [r \in Reloaders |-> {}]
    /\ readPhrases = [r \in Reloaders |-> {}]
    /\ learned = Stored(samples)
    /\ spoiled = FALSE
    /\ reloadFailed = FALSE

\* UpdateSpam and UpdateHam, RemoveSpam and RemoveHam.
Train ==
    \E k \in Classes, m \in Submitted :
        \/ UpdateSample(k, m) \/ RemoveSample(k, m)
        \/ RemoveNotStored(k, m) \/ RemoveNotUnlearned(k, m)

Request(r) ==
    \/ Reload(r)
    \/ \E w \in Words : AddDictionaryEntry(r, w) \/ DeleteDictionaryEntry(r, w)

ReloadSamples(r) ==
    \/ CheckStats(r)
    \/ ReadSamples(r, "presetSpam", "spam", "preset")
    \/ ReadSamples(r, "presetHam", "ham", "preset")
    \/ ReadSamples(r, "userSpam", "spam", "user")
    \/ ReadSamples(r, "userHam", "ham", "user")
    \/ ReadStopWords(r) \/ ReadExcluded(r)
    \/ LoadSamples(r) \/ LoadStopWords(r)
    \/ ReloadFails(r)

Next ==
    \/ Train
    \/ \E files \in Migrations : Restart(files)
    \/ \E r \in Reloaders : Request(r) \/ ReloadSamples(r)

Spec == Init /\ [][Next]_vars

----------------------------------------------------------------------------
(* Properties.                                                             *)

\* Every variable holds a value of its type; no word is in the dictionary as both types.
TypeOK ==
    /\ samples \in [Messages -> Rows \union {NoRow}]
    /\ ignoredWords \in SUBSET Words /\ excludedTokens \in SUBSET Words
    /\ stopPhrases \in SUBSET Words /\ stopWords \in SUBSET Words
    /\ ignoredWords \intersect stopPhrases = {}
    /\ classifier \in Counters
    /\ tokenizedSpam \in SUBSET SUBSET Tokens
    /\ pc \in [Reloaders -> DOMAIN After]
    /\ read \in [Reloaders -> [Classes -> [Messages -> Nat]]]
    /\ readIgnored \in [Reloaders -> SUBSET Words]
    /\ readPhrases \in [Reloaders -> SUBSET Words]
    /\ learned \in [Classes -> [Messages -> Int]]
    /\ spoiled \in BOOLEAN /\ reloadFailed \in BOOLEAN

\* "UpdateSpam appends a message to the spam samples file and updates the classifier"
\* (detector.go): a text the store has as a sample of a class is learned in that class,
\* whatever reloads run meanwhile, unless a removal took out what was never learned.
StoreLearned ==
    spoiled \/ \A m \in Messages : samples[m] # NoRow => learned[samples[m].type][m] > 0

\* A spam sample of the store takes part in the similarity check, in the very
\* tokens it would be split into now.
SpamSimilar ==
    \A m \in Messages : samples[m].type = "spam" => Doc(m) \in tokenizedSpam

\* The counters of the classifier are those of learning the samples learned and not
\* unlearned, in today's tokens: neither the relearning after a failed removal, nor an
\* exclusion between learning and unlearning, nor a reload loses or doubles a count.
ClassifierExact == spoiled \/ classifier = Loaded(learned, excludedTokens)

Quiet == ~reloadFailed /\ \A r \in Reloaders : pc[r] = "idle"

\* "reload samples to apply dictionary changes immediately" (webapi.go): when no request
\* is in progress and none failed, the detector excludes the ignored words of the store.
IgnoredApplied == Quiet => excludedTokens = ignoredWords

----------------------------------------------------------------------------
(* Why these hold: the inductive invariants.  The types and the counters   *)
(* need nothing but the steps; the others need a store on which an open    *)
(* cursor makes writes fail, and a preset that no admin removes or         *)
(* relabels, lest all the queries of a reload return nothing and leave no  *)
(* cursor behind (PresetsPresent looks earlier).                           *)

PresetTexts == [k \in Classes |-> IF k = "spam" THEN Content["spam-samples"] ELSE Content["ham-samples"]]

\* Admins do not submit the presets of one of the classes.
PresetsKept == \E k \in Classes : PresetTexts[k] \intersect Submitted = {}

CountersInv ==
    /\ TypeOK
    /\ spoiled \/ learned \in [Classes -> [Messages -> Nat]]
    /\ ClassifierExact

\* What ReloadSamples may do next when it has made a query.
Later ==
    LET rest == {"stopWords", "excluded", "load"}
    IN  [presetSpam |-> rest \union {"presetHam", "userSpam", "userHam"},
         presetHam |-> rest \union {"userSpam", "userHam"},
         userSpam |-> rest \union {"userHam"},
         userHam |-> rest]

\* The query that finds a row.
Query(row) ==
    IF row.origin = "preset" THEN IF row.type = "spam" THEN "presetSpam" ELSE "presetHam"
    ELSE IF row.type = "spam" THEN "userSpam" ELSE "userHam"

\* The presets are those of the files, and one of them stays.
PresetStays ==
    /\ \A m \in Messages, k \in Classes :
        samples[m] = [type |-> k, origin |-> "preset"] => m \in PresetTexts[k]
    /\ \E m \in Messages \ Submitted, k \in Classes : samples[m] = [type |-> k, origin |-> "preset"]

\* What a reload has read is still what the store holds.
ReadsCurrent ==
    /\ \A r \in Reloaders, m \in Messages :
        samples[m] # NoRow /\ pc[r] \in Later[Query(samples[m])] => read[r][samples[m].type][m] > 0
    /\ \A r \in Reloaders : pc[r] = "load" => readIgnored[r] = ignoredWords

\* A change of the ignored words is applied, or a reload will apply it, or one has failed.
ApplyUnderWay ==
    \/ reloadFailed \/ excludedTokens = ignoredWords
    \/ \E r \in Reloaders : pc[r] \notin {"idle", "loadStopWords"}

StoreInv == PresetStays /\ ReadsCurrent /\ StoreLearned /\ SpamSimilar /\ ApplyUnderWay
=============================================================================
