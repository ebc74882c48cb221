----------------------------- MODULE Duplicates -----------------------------
(***************************************************************************)
(* duplicateDetector: the recent messages of one user, to find the same    *)
(* text sent again and again.  The histories of different users do not     *)
(* meet, except that the cache may drop one for the sake of others and     *)
(* that anybody's message may start the periodic cleanup of all; each      *)
(* operation holds the mutex from beginning to end.                        *)
(*                                                                         *)
(* entries is the source of truth.  A tracker per text (count and message  *)
(* ids) is rebuilt from it at every message and then adjusted step by step *)
(* for edits, for the new message and for two limits.                      *)
(*                                                                         *)
(* A message id of 0 stands for a text somebody checks for that user (the  *)
(* web API, a forward in the admin chat): it is counted like a message.    *)
(***************************************************************************)
EXTENDS Naturals, Sequences, FiniteSets, Subsequences

CONSTANTS
    Ids,         \* ids of the user's messages: positive ints, of which there are finitely many
    Texts,       \* texts, that is their hashes
    Threshold,   \* Config.DuplicateDetection.Threshold
    Window,      \* Config.DuplicateDetection.Window, in ticks
    MaxEntries,  \* maxEntriesPerUser
    MaxIds       \* how many ids a tracker keeps when one is added

ASSUME DuplicatesConstants ==
    /\ Ids \subseteq Nat \ {0} /\ IsFiniteSet(Ids)
    /\ Threshold \in Nat \ {0} /\ Window \in Nat \ {0} /\ MaxEntries \in Nat \ {0}
    /\ MaxIds \in 1 .. MaxEntries

VARIABLES
    entries,   \* userHistory.entries: text, message id, and age in ticks up to Window
    trackers,  \* userHistory.trackers: count and message ids of each text
    verdict,   \* what the check just made answered of which text, NoVerdict when none was
    posts,     \* history: text and ages (of the text, of the last update) of each message
    lost       \* history: messages pushed out of entries by the limit or with the cache

history == <<posts, lost>>
vars == <<entries, trackers, verdict, history>>

----------------------------------------------------------------------------
\* The tracker of a text without entries: there is none in the map.
NoTracker == [count |-> 0, ids |-> <<>>]

NoTrackers == [t \in Texts |-> NoTracker]

NoVerdict == [text |-> {}, id |-> 0, edit |-> TRUE, spam |-> FALSE, extra |-> <<>>]

\* The places of the entries of one text.
Places(es, t) == {i \in DOMAIN es : es[i].text = t}

\* The message ids of the entries of one text, the oldest first.
IdsOf(es, t) ==
    LET known == Keep(es, {i \in Places(es, t) : es[i].id > 0})
    IN  [i \in DOMAIN known |-> known[i].id]

\* Every entry is taken to be recent.
AllEntries(es) == es

\* filterExpiredEntries: what is younger than the window ...
Unexpired(es) == Keep(es, {i \in DOMAIN es : es[i].age < Window})

\* ... and trackers built anew.
Trackers(es) == [t \in Texts |-> [count |-> Cardinality(Places(es, t)), ids |-> IdsOf(es, t)]]

\* removeMessageID: the first occurrence goes.
RemoveMessageID(ids, id) ==
    Keep(ids, {i \in DOMAIN ids : ids[i] = id => \E j \in DOMAIN ids : j < i /\ ids[j] = id})

\* The count goes down, the id stays in the list.
UntrackCountOnly(trk, e) ==
    [trk EXCEPT ![e.text] = IF @.count = 1 THEN NoTracker ELSE [@ EXCEPT !.count = @ - 1]]

\* An entry is taken out of its tracker.
Untrack(trk, e) ==
    [trk EXCEPT ![e.text] =
        IF @.count = 1 THEN NoTracker
        ELSE [count |-> @.count - 1, ids |-> RemoveMessageID(@.ids, e.id)]]

\* The place of the first entry that the message has under another text, if there is one.
NoEdits(es, text, id) == {}

Edited(es, text, id) ==
    LET outdated == {i \in DOMAIN es : id > 0 /\ es[i].id = id /\ es[i].text # text}
    IN  {i \in outdated : \A j \in outdated : i <= j}

\* A text seen before is taken for an edit, whatever message it is in.
SeenText(es, text, id) == \E i \in DOMAIN es : es[i].text = text

\* isEdit: this message is already known with this text.
Known(es, text, id) == id > 0 /\ \E i \in DOMAIN es : es[i].id = id /\ es[i].text = text

\* The last MaxIds ids.
Newest(ids) == IF Len(ids) > MaxIds THEN SubSeq(ids, Len(ids) - MaxIds + 1, Len(ids)) ELSE ids

Count(tracker, id) ==
    [count |-> tracker.count + 1,
     ids   |-> IF id > 0 THEN Newest(Append(tracker.ids, id)) ELSE tracker.ids]

\* The ids but the first.
AllButFirst(ids) == IF Len(ids) > 1 THEN Tail(ids) ELSE <<>>

\* extraIDs: all ids but the last, which is taken to be the current message.
AllButLast(ids) == IF Len(ids) > 1 THEN SubSeq(ids, 1, Len(ids) - 1) ELSE <<>>

\* The limit is left to the window.
NoLimit(es) == FALSE

\* One entry more than MaxEntries: a message adds no more than one.
OverLimit(es) == Len(es) > MaxEntries

----------------------------------------------------------------------------
\* check and trackMessage.
Check(text, id) ==
    LET recent   == Unexpired(entries)
        old      == Edited(recent, text, id)
        es       == Keep(recent, DOMAIN recent \ old)
        trk      == IF old = {} THEN Trackers(recent)
                    ELSE Untrack(Trackers(recent), recent[CHOOSE i \in old : TRUE])
        edit     == Known(es, text, id)
        added    == IF edit THEN es ELSE Append(es, [text |-> text, id |-> id, age |-> 0])
        counted  == IF edit THEN trk ELSE [trk EXCEPT ![text] = Count(@, id)]
        over     == OverLimit(added)
        final    == IF over THEN Untrack(counted, Head(added)) ELSE counted
        alarm    == ~edit /\ final[text].count >= Threshold
    IN  /\ entries' = IF over THEN Tail(added) ELSE added
        /\ trackers' = final
        /\ verdict' = [text |-> {text}, id |-> id, edit |-> edit, spam |-> alarm,
                       extra |-> IF alarm THEN AllButLast(final[text].ids) ELSE <<>>]
        /\ posts' = IF id = 0 THEN posts
                    ELSE [posts EXCEPT ![id] =
                            [text |-> {text}, since |-> IF @.text = {text} THEN @.since ELSE 0, age |-> 0]]
        /\ lost' = (lost \ {id}) \union (IF over THEN {Head(added).id} \ {0} ELSE {})

\* A message is posted or edited, or a text is checked for the user.
Message == \E text \in Texts, id \in Ids \union {0} : Check(text, id)

\* performCleanup, started by somebody's message.
Cleanup ==
    /\ entries' = Unexpired(entries)
    /\ trackers' = Trackers(Unexpired(entries))
    /\ verdict' = NoVerdict
    /\ UNCHANGED history

\* The cache drops the least recently used history, or one not set for two windows; a
\* restart drops them all.
Forget ==
    /\ entries' = <<>>
    /\ trackers' = NoTrackers
    /\ verdict' = NoVerdict
    /\ lost' = lost \union ({entries[i].id : i \in DOMAIN entries} \ {0})
    /\ UNCHANGED posts

Older(age) == IF age < Window THEN age + 1 ELSE Window

Tick ==
    /\ entries' = [i \in DOMAIN entries |-> [entries[i] EXCEPT !.age = Older(@)]]
    /\ posts' = [id \in Ids |-> [posts[id] EXCEPT !.since = Older(@), !.age = Older(@)]]
    /\ verdict' = NoVerdict
    /\ UNCHANGED <<trackers, lost>>

Init ==
    /\ entries = <<>>
    /\ trackers = NoTrackers
    /\ verdict = NoVerdict
    /\ posts = [id \in Ids |-> [text |-> {}, since |-> Window, age |-> Window]]
    /\ lost = {}

Next == Message \/ Cleanup \/ Forget \/ Tick

Spec == Init /\ [][Next]_vars

----------------------------------------------------------------------------
(* Properties.                                                             *)

\* Every variable holds a value of its type; the history respects its limit.
TypeOK ==
    /\ entries \in Seq([text : Texts, id : Ids \union {0}, age : 0 .. Window])
    /\ Len(entries) <= MaxEntries
    /\ trackers \in [Texts -> [count : 0 .. MaxEntries, ids : Seq(Ids)]]
    /\ verdict \in [text : SUBSET Texts, id : Ids \union {0}, edit : BOOLEAN, spam : BOOLEAN, extra : Seq(Ids)]
    /\ posts \in [Ids -> [text : SUBSET Texts, since : 0 .. Window, age : 0 .. Window]]
    /\ lost \in SUBSET Ids

\* The tracker is that of a recount of the entries with the text: the count exactly, the
\* ids but for the oldest ones, which the limit of ids leaves out.
Recounted(tracker, es, t) ==
    /\ tracker.count = Cardinality(Places(es, t))
    /\ \E n \in 0 .. Len(IdsOf(es, t)) : tracker.ids = SubSeq(IdsOf(es, t), n + 1, Len(IdsOf(es, t)))
    /\ Len(tracker.ids) >= MaxIds \/ tracker.ids = IdsOf(es, t)

\* After any sequence of edits, expiries and overflows the adjusted trackers are those
\* of a recount of the entries.
TrackersExact == \A t \in Texts : Recounted(trackers[t], entries, t)

\* "each messageID only belongs to one hash (current content)" (duplicate.go): no message
\* is counted twice, nor for a text it no longer has.
OneContentPerMessage ==
    \A i \in DOMAIN entries :
        entries[i].id > 0 =>
            /\ posts[entries[i].id].text = {entries[i].text}
            /\ \A j \in DOMAIN entries : entries[j].id = entries[i].id => i = j

\* Checks of the text under id 0 that are counted at present.
Checked(text) == Cardinality({i \in DOMAIN entries : {entries[i].text} = text /\ entries[i].id = 0})

\* "Number of identical messages to trigger spam detection" within the window (README):
\* whoever is flagged has that many messages of the text, counting the checks made of
\* it for the user, all of them posted or edited within the window.
NoFalseAlarm ==
    verdict.spam =>
        Threshold <= Checked(verdict.text)
                     + Cardinality({id \in Ids : posts[id].text = verdict.text /\ posts[id].age < Window})

\* Conversely, whoever has that many messages of the text of this message, none of them
\* forgotten by a limit or the cache, is flagged, edits back and forth included.
NoMissedAlarm ==
    ~verdict.edit /\ Threshold <= Cardinality({id \in Ids \ lost :
                                     posts[id].text = verdict.text /\ posts[id].since < Window})
        => verdict.spam

\* The messages deleted along with a flagged one are other messages that still have the
\* flagged text; and, if the flagged one has an id (a check by the web API or of a forward has
\* none), all those posted within the window are among them, unless there are so many that
\* the limit of ids leaves some out.
CopiesDeleted ==
    verdict.spam =>
        LET extra    == {verdict.extra[i] : i \in DOMAIN verdict.extra}
            sameText == {id \in Ids \ {verdict.id} : posts[id].text = verdict.text}
            recent   == {id \in sameText : posts[id].age < Window}
            copies   == {id \in sameText \ lost : posts[id].since < Window}
        IN  /\ extra \subseteq sameText
            /\ verdict.id > 0 /\ Cardinality(recent) < MaxIds => copies \subseteq extra
----------------------------------------------------------------------------
(* Why these hold: the inductive invariant, of which the first three parts *)
(* are among the properties.                                               *)

\* The entry of a message was made after it got its text and before it was last updated.
Fresh ==
    \A i \in DOMAIN entries :
        entries[i].id > 0 =>
            posts[entries[i].id].age <= entries[i].age /\ entries[i].age <= posts[entries[i].id].since

\* A message whose text is not older than the window has an entry, unless it was lost.
Remembered ==
    \A id \in Ids \ lost :
        posts[id].since < Window => \E i \in DOMAIN entries : entries[i].id = id

\* What was just answered follows from the entries, all of them recent then, and from
\* the tracker of the text; the last entry is that of the message, unless it is an edit.
Answered ==
    \/ verdict = NoVerdict
    \/ \E text \in Texts :
          /\ verdict.text = {text}
          /\ \A i \in DOMAIN entries : entries[i].age < Window
          /\ ~verdict.edit => /\ entries # <<>>
                              /\ entries[Len(entries)] = [text |-> text, id |-> verdict.id, age |-> 0]
          /\ verdict.spam <=> ~verdict.edit /\ trackers[text].count >= Threshold
          /\ verdict.spam => verdict.extra = AllButLast(trackers[text].ids)

DuplicatesInv ==
    /\ TypeOK /\ TrackersExact /\ OneContentPerMessage
    /\ Fresh /\ Remembered /\ Answered

=============================================================================
