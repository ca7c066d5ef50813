# CalStack: specifications of its store, its job queue and its web client

CalStack is a calendar server in Rust: an axum HTTP server with a JSON API and
CalDAV/CardDAV endpoints over PostgreSQL, and a worker that runs durable jobs;
its web client is JavaScript on server-rendered pages. Three parts are specified:

- the *store*: the write transactions of calendar events, and the change
  journal that clients synchronise from. The state is in PostgreSQL, and several
  requests and the worker act on it at once. The hard behaviours are their
  interleavings at statement level, failures in the middle, and clients that
  work from old state;
- the *job queue*: rows that a worker leases, runs and finishes in separate
  statements, jobs that enqueue their own successor, and webhook deliveries whose
  outcome is another row. The hard behaviours are crashes between two statements,
  leases that run out under a worker that goes on, and retries;
- the *web client*: what its pages keep (a cache of events, the calendar that is
  selected, the dialogs), what they ask the server for, and what the answers do
  when they come late, in another order, or not at all. The handlers never ask
  whether an answer is still wanted, so this is where its hazards are. The part
  of the server behind each request is modelled as far as it decides the
  outcome.

## Inventory

| component | state | operations | what is hard | what makes it correct |
|---|---|---|---|---|
| event store (`calendar-db/src/lib.rs`, `ics_upsert.rs`) | `events`, `change_log`, `calendars.ctag` | `create_event`, `update_event`, `delete_event`, `put_series`, `split_event`, `append_change` | row locks in different orders, unique indexes that include soft-deleted rows, a series in several rows | one effect per request, one journal entry per effect, etag checks that hold at the commit |
| CalDAV adapter (`calendar-caldav/src/adapter.rs`) | a buffer per open file | `open`, `flush`, `remove_file`, `metadata` | preconditions are evaluated by dav-server before the transaction | no update is lost under If-Match |
| JSON events API (`events_api.rs`) | none | `create_event`, `patch_event`, `delete_event` | read before the transaction | as above |
| sync-collection (`dav.rs`) | the token, a `change_log.seq` at the client | `sync_collection` | truncation, purged journal, seq order against commit order | a client with the newest token has what is there |
| retention purge (`jobs.rs`) | none | `retention_purge` | rows go before their journal entries | clients with older tokens start again |
| job queue (`calendar-db/src/jobs.rs`, `calendar-server/src/jobs.rs`) | `durable_jobs` | `enqueue`, `lease_next`, `complete`, `fail`, `run_worker` | leases that run out, crashes, self-renewing jobs | no job is lost, each chain has one successor |
| webhooks, alarms, notifications | `webhook_deliveries`, `notifications` | enqueue, send, record the result | two statements per delivery, claims | sent at least once, outcome not overwritten |
| scheduling (`scheduling.rs`) | iMIP outbox, inbound log | `dispatch`, `dispatch_cancel`, `send_pending`, `record_inbound` | order of messages, retries | the attendee ends with the organizer's last word |
| tasks and journals (`tasks.rs`) | `tasks`, `journals` | complete, reopen, re-parent, delete with subtasks | cycles from concurrent moves and from creations, whose parent is not checked | the parents form a forest |
| authentication (`auth.rs`) | sessions, failed logins | login, second factor | check and count in two steps | the number of guesses is bounded |
| recurrence, rules, subscriptions, change feed, CardDAV, backup | see `PROJECT.json` | | | |

The web client (`calendar-web/src/assets/js/`); every part sends its requests
with `api()` or jQuery and shares one popup, SweetAlert2, with the others:

| component | state | operations | what is hard | what makes it correct |
|---|---|---|---|---|
| requests (`app.js` 1-80) | what is under way, the popup, the page | `api`, `errorDialog`, `confirmDialog`, `promptDialog` | answers in any order, lost answers, 401, an error that replaces an open question | |
| event editor (`app.js`) | `eventCache`, the widget's pills, the modal, the dirty flag | `openEventModal`, `saveEvent`, `deleteEvent`, `cancelOccurrence`, `truncateSeries`, `refetch` | a form open for long, Enter and the button, answers to an earlier form | nobody's change is overwritten unseen, one form one event, typed text is kept, the grid is current |
| event form (`app.js`, `events_api.rs`, `lib.rs`) | the fields | fill, edit, send, merge | a feed that leaves fields out, a merge that cannot clear | what is saved is what was meant |
| calendars, tabs, panes (`app.js`) | selection, tab, URL, what each pane has loaded | `selectCalendar`, `activate*`, `loadCalendars` | lists that arrive after the next selection | a pane shows the selected calendar |
| calendar dialog (`app.js`) | the dialog | create, import, clean up, edit | three requests for one calendar, an import that fails half way | a failed import is undone and no other, untouched fields stay |
| sharing dialog (`app.js`) | access list, share links | grant, revoke, create a link, copy it | the list is sent whole; a link is shown once | one change changes one person |
| search boxes (`app.js`) | text, timer, menu, picked place | debounce, search, pick | late answers, picks from old menus | the place is the one whose text is shown |
| attachments (`app.js`) | list of the modal | upload, delete | the modal has moved on | rows are of the event in the modal |
| tasks (`tasks.js`, `tasks.rs`) | list, tree, form, busy flag | add, edit, move, delete | concurrent moves, tasks created below themselves, double submit | every task is drawn, no cycle from this page |
| journals (`journals.js`) | list, form, busy flag | write, delete | late answers | one entry per text, nothing lost |
| row tables (`categories.js`, `rules.js`, `admin.js`, `tasks.js`) | the controls in rows | switch, rename, add, delete | refused changes | the row shows what the server has |
| contacts (`contacts.js`) | book, list | select, add, delete | as for panes | the list is that of the book |
| credentials (`credentials.js`) | TOTP status, recovery codes, lists | enrol, confirm, disable, revoke | codes are shown once | the codes that work are shown |
| providers (`providers.js`) | add form, edit and test dialogs | add, edit, test, delete | one dialog for all | fields belong to the provider |
| account (`app.js`) | `userPrefs`, push, password | save, subscribe | boxes read late | the dialog shows what is stored |
| subscriptions dialog, event search, audit list, export, connection info, theme, service worker, templates | little or none | | one request, one answer | see *Not modelled* |

A CalDAV PUT goes dav-server -> `metadata` -> `open` -> `flush` -> `put_series`;
a JSON PATCH goes `get_event` -> `update_event`; all of them end in
`append_change`, which writes `change_log` and moves `calendars.ctag`. Only
`change_log` connects the writers to the synchronising clients. After the
commit, the handlers call scheduling, webhooks and rules. These write
notifications, deliveries, messages and the copies in attendees' calendars, not
the event of the request; the core leaves them out.

## Modules

| module | what it is |
|---|---|
| `CalendarStore` | the write path of one calendar, statement by statement |
| `AtomicCalendar` | what the calendar promises: one resource at a time, one journal entry each |
| `CalendarStoreProofs` | types and exclusion of `CalendarStore`, and the conditional write |
| `CalendarStoreSafety` | its keys, its series, and that it implements `AtomicCalendar` |
| `CalendarSync` | extends `CalendarStore` with a client that follows it through sync-collection |
| `CalendarSyncProofs` | types of the client and the losses it can suffer, for every calendar and limit |
| `MCCalendarStore`, `MCCalendarSync` | initial table, requests and symmetry for TLC |
| `JobQueue`, `MCJobQueue` | the durable job queue, its workers, the chains of self-renewing jobs and webhook deliveries |
| `JobQueueProofs` | theorems about `JobQueue` |
| `WebRequests` | what every page shares: requests under way, the popup, the page, losses |
| `EventEditing` | what the event editor promises the other users of a calendar |
| `EventEditor`, `MCEventEditor` | the modal, the widget and the cache, with the server's side of each request; implements `EventEditing` |
| `EventEditorProofs` | types of `EventEditor`, the refinement, and theorems about typed text, double creation and the grid |
| `EventForm` | the fields of an event from the feed through the form to the stored row |
| `CalendarTabs`, `CalendarDialog`, `SharingDialog`, `SearchBoxes`, `Attachments` | the other parts of the index page |
| `TasksPane`, `JournalForm`, `RowSwitches` | its panes |
| `ContactsPage`, `CredentialsPage`, `ProvidersPage`, `AccountDialog` | the other pages, and the account dialog of all |
| `WebClientProofs` | lemmas about requests under way, and theorems about the tasks, the journals, the tables with switches and the other pages |
| `IndexPageProofs` | theorems about the calendar tabs, the attachments, the search boxes and the event form |
| `DialogProofs` | theorems about the calendar dialog and the sharing dialog |
| `MCWebClient` | the parts side by side, one of them at work, for TLC |

### CalendarStore

`row`, `log`, `nextSeq` and `ctag` are the committed tables and the identity of
`change_log.seq`. Each `Txn` serves one request and walks through `pc`:

    idle -Send-> sent -Precheck-> checked -Open/RemoveFile-> opened -Begin-> begun
                 sent -Handle--------------------------------> opened
    begun -EditById/Insert-----------------------------------> written
    begun -AtHref-> found -ByUid-> decided -UpdateMaster/InsertMaster-> written
          written -ReplaceOverrides-> replaced
    written/replaced -AppendChange-> recorded -Commit-> ok

`Precheck` is dav-server; `Open` and `RemoveFile` are the adapter; `Handle` is
the JSON handler; `EditById` is `update_event` and `delete_event` up to
`append_change`; `AtHref` to `ReplaceOverrides` are `put_series`. A transaction
keeps its row locks in `locks` and its uncommitted rows in `img`, and its
`change_log` row in `entry`. PostgreSQL is modelled as the code depends on it:

- a statement that must wait is not enabled; after the wait its WHERE clause is
  evaluated on what is committed by then (READ COMMITTED re-checks the row);
- an insert or update into a unique index waits for an uncommitted row with the
  same key (`Pending`) and then fails if the key is taken (`Clashes`); both
  indexes on `events` include soft-deleted rows;
- `seq` is taken by `AppendChange` and lost on rollback; the lock on the
  calendar row is taken by the last statement and held to the commit, so that
  the update of the ctag and the commit are one step;
- a cycle of waits is broken by aborting one of its members.

`Crash` aborts a request at any point. `author` in a row is a history variable:
which request wrote the content. Request bodies are abstracted to UID, filename,
SEQUENCE and whether an override is present; times to the clock the etag sees.

### CalendarSync

`mirror` is the client's etag per filename and `token` its sync token. `Report`
is the whole of `sync_collection`: it runs in one REPEATABLE READ snapshot, so
one action is what it does. The history variables are `horizon`, the largest
purged `seq`, and `missed`, the filenames for which the journal has failed the
client: a transaction committed with a `seq` below the token, a soft-deleted
series was brought back under another name, or rows or entries were purged
before they were seen. `Missing` says when each happens. An entry may also mislead the
client that reads it (`Misleading`). Once its row is purged it stands for the filename
`{id}.ics`, which may be another event's. And the purge of the journal goes by
`changed_at`, which is the start of a transaction, not by `seq`: of an event that was deleted and
brought back it may take the second entry and leave the first, so that a live event is
reported deleted. A filename is in `missed` until a truthful entry about it is read.

### JobQueue

`job` is `durable_jobs` without its finished rows, `ahead` the order that `ORDER BY
run_at` gives them (rows with an equal `run_at` in the order they got it);
`wait` and `lease` of a row are how far `run_at` and `locked_until` lie ahead, so
that time is `PassTime`, which shortens them all. `stage[p]` is where the worker of
process p is between two statements, `taken[p]` the row `lease_next` gave it:

    down -Boot-> check -CheckSeed/Seed-> poll -Lease-> work -Perform-> spawn -Spawn-> complete
                                                         \-Perform-> record -Record-> complete or fail
    any of them may go to fail; Complete, FailJob and GiveBack go back to poll, Dies to down

A chain is a job that enqueues its successor before it is complete: `alarm_scan`,
`notify_send`, `retention_purge`, `ics_sync`. A delivery is a row of
`webhook_deliveries` (`status`) with a `webhook_send` job, which `CreateDelivery` and
`EnqueueSend` insert in two statements. `complete` and `fail` go by id and do not ask
whose lease they end, so a worker that outlives its lease can finish the
attempt of another; the model lets leases expire at any time a worker is slow.
`MaxFaults` bounds crashes, lost answers (`SpawnUnanswered`) and errors that the
worker swallows (`CheckFails`, `GiveBack`). Errors that are reported need no
bound: every attempt may fail, and is counted by the code.

`excused` is a history variable: the tasks that have met a mishap the code does not
guard against. `begun` and `dead` are the chains that were started and those whose job
failed `max_attempts` times.

### The web client

`WebRequests` holds what the parts share. `net` is the sequence of requests not
yet handled: `Request` is `api()`; a request is *sent*, the server turns it into
*answered* or *failed* in one step (`Reply`, `Reject`), and the callback of the
page (one action per `.done()` or `.fail()`) removes it. Nothing orders the
answers. `Lose` loses the request or the answer, which looks the same to the
browser; `SessionExpired` is the 401 that sends the page to the login form.
`popup` is the one SweetAlert2 window: while it is open the user can only answer
or dismiss it (`UserMayAct`), and an answer that shows an error or a toast
replaces it. A question and its answer are one step where nothing can come
between them that matters.

`EventEditor` composes three things the code connects only through `state`: the
widget (`grid`, `Refresh`, `ShowOccurrences`), the cache a click on a pill is
looked up in (`cache`, `Seen`), and the modal (`form`). An event is a version
number, which stands for its content and its etag; `writer` is who wrote it.
`Save` is `saveEvent` with its four requests: POST, PATCH with If-Match, POST of
an override, POST of a split; `Accepts` is when the server takes each. `Finish`
is `done()`: it hides whatever modal is open by then, shows a toast and
refetches. A `session` is one opening of the modal. `OthersWrite` are the other
users.

`EventForm` has no concurrency: it follows each field through
`openEventModal`, the user's edits, the body that `saveEvent` builds, and
the way `update_event` (COALESCE), `create_event`, the override and `split_event`
(`body.x.or(master.x)`) merge it. `meant` is what the user wants to be stored.

The other modules have the same shape: server variables, page variables, a
history variable that marks when a promise is off, one action per handler and
one per callback.

`TasksPane` splits the server's `update_task` into `reject_parent_cycle` and the
write that follows it, in between which the tasks above may move: only the task
itself is locked. Other programs move tasks in the same two steps, or create them
(`OthersCreate`): `create_task` stores a parent as it comes, from a PUT with
RELATED-TO or a POST with `parent_uid`, and children may be there before their
parent. Every other request of the web client is one step at the server. An import
is one too, whose outcome is one of three: all of the file, nothing and a failure,
or a part and a failure, since `import_ics` commits series by series.

In most properties of the web client an exception is named. It is not there to
make the property pass: it is what the code really loses, and the property says
that nothing else is lost. The exceptions are history variables (`late`, `raced`,
`doubled`, `misled`, ...), set at the step where the order is inverted, the
second submission made or the answer lost. With each taken away, TLC finds the
loss in a few steps.

## What the runs show

| run | bounds | properties | result |
|---|---|---|---|
| `store` | 3 transactions, 7 ids, 2 filenames, 2 UIDs, 9 requests, clock to 2, `IntMax` 4 | `TypeOK`, `KeysUnique`, `ImplementsAtomic`, `ConditionalWrite`, `PutReplacesSeries` | hold, 386,633 states |
| `sync` | 2 transactions, 6 requests, limits 1 and none | `SyncTypeOK`, `NothingElseLost`, `Converges`, `Finishes` | hold, 36,410 states |
| `dav_delete_race` | 2 transactions | `NoLostUpdate` | violated |
| `dav_put_race` | 2 transactions | `NoLostUpdate` | violated |
| `dav_bare_put` | 1 transaction | `RefusedOnlyIfChanged` | violated |
| `sync_commit_order` | 2 transactions | `CaughtUp` | violated |
| `sync_purged_token` | 2 transactions, clock to 2 | `PurgedTokenRefused` | violated |
| `sync_initial` | 2 transactions, clock to 2, no token | `InitialSyncComplete` | violated |
| `event_editor` | 1 event, 2 requests under way, 1 fault, 3 versions, 2 openings | `EditorTypeOK`, `GridCurrent`, `TextKept`, `CreatedOnce`, `ImplementsEventEditing` | hold, 1,400,147 states |
| `web_client` | 2 requests, 1 fault, 2 to 4 user actions per part, 2 of each thing | the 22 properties of its parts, below | hold, 2,013,142 states |
| `job_queue` | 2 processes with 2 rows or 1 with 3, 1 chain seeded, 1 delivery, 2 attempts, lease and interval of 1 tick, 1 fault | `ChainAlive`, `SingleChain`, `DeliveriesSettled`, `DeliveriesEnd` | hold, 565,412 states |
| `event_form_save` | 1 guest, 1 venue, 2 openings, 2 edits | `AttendeesKept` | violated |

The bounds. The initial table has a live series with an override, a
soft-deleted series that still holds its UID and filename, and free ids; the
nine requests are every operation on these, conditional and not, on free and on
taken keys; a PUT to the filename of the soft-deleted series itself is among
the requests of `sync`. Three transactions let a request commit between the
check and the commit of a second one while a third waits for either, and make
cycles of waits (master and override). A clock of two
values separates "same millisecond" from "later" and lets the purge cut fall
between a deletion and now. `IntMax` 4 lets a PUT with SEQUENCE 3 reach the
largest column value and a PATCH overflow it. Three initial journal rows and
one per transaction let a report of one entry be truncated. The transactions
are one-shot, so every run really ends: deadlock checking is off, and `Finishes`
takes its place. Its mutant keeps the locks of an aborted transaction, for which
two transactions are enough.

The bounds of the queue. `setting` is one of two: *pair*, two processes that seed at
the same time, outlive each other's leases and take over each other's rows; two
ids are then enough for a chain and its successor, or a chain and a delivery, and no
row of `notify_send` is enqueued (its enqueue fails, which the code ignores); and
*alone*, one process with three ids, where an `alarm_scan`, the `notify_send` it has
started and a delivery share the queue. The processes being alike, it is always the
first that creates the delivery. Jobs that would need a further id fail to be
enqueued, as on a database error. Two attempts separate a failure that is retried
from the last; one fault is one crash, lost answer or swallowed error anywhere,
on top of any number of failed attempts and expired leases. A lease of one tick runs
out at the next `PassTime`. The queue never ends by itself, but with every
process down and no fault left to explore some behaviours do, so deadlock
checking is off; `DeliveriesEnd` takes its place.

The bounds of the web client. Two requests under way let one answer overtake
another, and let the user work on between a request and its answer; one fault
loses one of them or ends the session. Three versions of an event are the one
the cache holds, the one somebody wrote since, and the one the editor writes. The
modal needs two openings to confuse an answer to the first with the second; they
are alike, so `event_editor` uses symmetry on them. In `web_client` one part is
at work per behaviour and the others stay as they were at first; `Seen` is the
view that leaves them out. No handler of one part writes the state of another, except
that all share the popup, which each part replaces itself. Calendars, books,
events, people and providers come in twos, which is what a mix-up needs; tasks
are five: one that is not there, the parent a chain of three names, and one that
others may move, so that two legal moves can close a cycle, and so can the creation of
the absent one below its own descendants. Other programs do one of the two. The bounds on what the user does (`MaxClicks`, `MaxDialogs`,
...) are large enough that every action and every named exception happens; the
mutant of each property is found within them. Pages really end (the user leaves),
so deadlock checking is off.

The properties of `web_client`:

| part | properties |
|---|---|
| tabs | `ViewFollowsSelection`: the open view shows the selected calendar once all is answered; `ReloadRestores`: the address leads back to it |
| calendar dialog | `FailedImportsUndone`: the clean-up takes no calendar whose file is all in it, and every one with a part of a file; `OtherFieldsKept`: an edit changes what was edited |
| sharing | `AccessChangedAsAsked`: one person's access changes; `LinkShownOnce`: when the link that is shown once goes |
| search boxes | `MenuMatchesText`: a menu offers what matches its text; `PlaceMatchesText`, `NoDuplicateAttendees` |
| attachments | `AttachmentsOfHolder`, `ErasedFromHolder` |
| event form | `SavedButForLosses`: every field is saved as meant, but for the losses it lists |
| tasks | `EveryTaskDrawn`: no row is lost but in a cycle made by overlapping changes or by an unchecked creation; `OffersAcyclic`: the picker of the form offers no cycle; `TaskAddedOnce` |
| journals | `NotedOnce`, `JournalTextKept` |
| switches | `RowsTrue`: a control shows what the server has |
| contacts, credentials | `ContactsOfBook`; `RecoveryCodesShown` |
| providers, account | `FieldsOfProvider`; `UserPrefsTrue` |

What the violations say of the code:

- *dav_delete_race*. `remove_file` calls `delete_event(.., None)`. The If-Match
  of a CalDAV DELETE is compared before the transaction only; a PATCH that
  commits in between is deleted unseen.
- *dav_put_race*. `open` reads the object again and captures the etag of that
  second read, so that an update between dav-server's check and `open` counts as
  the version the client has read. `put_series` then checks, correctly and under
  its lock (`ConditionalWrite`), the wrong etag.
- *dav_bare_put*. `object_at` returns soft-deleted rows and `open` captures
  their etag; `put_series` looks for live rows, finds none, and refuses as
  "changed concurrently" a PUT nobody interfered with.
- *sync_commit_order*. Entries become visible in commit order but tokens count
  in `seq` order: PATCH takes 4, PUT takes 5 and commits, the client syncs to 5,
  PATCH commits, and entry 4 is never reported.
- *event_form_save*. The occurrences feed sends `attendees: []` for every event
  (`event_view(.., &[], ..)`), `openEventModal` fills the list of the form from it,
  `saveEvent` sends the list, and the server takes a list as the new set: saving
  any edit removes every attendee, who are then told that the event is cancelled.
- *sync_purged_token*, *sync_initial*. The purge deletes journal entries, but
  no token is refused for being too old, and a sync from nothing lists
  journal entries, not resources.

`NothingElseLost` and `Converges` are the complement of the last three: for a
filename none of those losses and of the ones in `Missing` and `Misleading` has touched, no combination of truncated pages,
deletions sent early, overrides, aborted transactions and purges leaves a client
wrong for good.

What the exceptions of the passing properties say of the web client (each holds
in the code as it is):

- `SavedButForLosses`: PATCH has no rule, so an edit of Repeat is dropped; a field
  that is cleared keeps its old value (COALESCE); the text of a picked place
  cannot be edited; a split that turns a timed event into an all-day one is
  refused by a CHECK of the table.
- `TextKept`: the dirty flag misses the description and the attendee buttons, and
  the answer to a save closes a form into which more was typed meanwhile.
- `CreatedOnce`: Enter leaves the Save button enabled, and a creation has no key
  by which the server would know it again.
- `GridCurrent`, `ViewFollowsSelection`, `ContactsOfBook`, `AttachmentsOfHolder`: an
  answer that overtakes an earlier one is replaced by it. The
  first list of calendars also overrides a selection made before it.
- `FailedImportsUndone`: the comment at the clean-up (app.js:382) speaks of "an empty
  orphan". What is deleted need not be empty: an import that fails after some series leaves
  them there, another program may have added to the calendar, and when the answer to a
  successful import is lost the whole file goes. Only the last is an exception of the
  property; the first two are what it is about.
- `MenuMatchesText`: answers in another order, losses, and boxes emptied or filled while a
  search is pending leave a menu for another text. So do, without any of that, two searches
  for a place: "ab" is answered after "abc" was typed and fills the menu, "abc" finds nothing,
  and nothing found hides no menu (app.js:1056). What is typed anew ends each exception.
- `AccessChangedAsAsked`: the list stays changed after the server refused it, and
  the next change sends it. Somebody who is listed can be added again (app.js:1266); the
  list then breaks the primary key of `calendar_acl`, and every change is refused until he
  is removed or the list is loaded again.
- `LinkShownOnce`: any failure and the answer to a change of the access list
  take the link off the screen.
- `RecoveryCodesShown`: a status asked for earlier hides the codes.
- `RowsTrue`: only the table of users turns a refused switch back.
- `FieldsOfProvider`: an edit of a push provider drops its VAPID keys, since the form does not know
  them.
- `EveryTaskDrawn`: `reject_parent_cycle` reads the tasks above without a lock, and
  `create_task` does not ask it: a task that names itself or one below it as its parent is
  stored without any concurrency, and the page draws none of the ring.
- `OffersAcyclic`: the form asks the list it was filled from. What other programs have moved,
  or created with a parent, in the meantime is outside the property.
- `JournalTextKept`, `TextKept`: the redirect of an expired session (api.js:18) leaves the page with
  whatever was typed; that is not counted as a loss.
- `SaveTask` of `TasksPane` is possible once per page: `saveEditor` returns nothing,
  `.always()` throws, and the busy flag stays (`tasks.js` 254-260).

Some hazards are of a kind the code does not withstand, and the property beside them says
only what holds otherwise; it would not catch them getting worse. `RowsTrue` leaves out the
switch of a rule that was refused, `UserPrefsTrue` the crossings with auth/me, `ErasedFromHolder` a
Delete in a list that is awaited, late or lost, `AccessChangedAsAsked` a change of a late or
refused list, `TypeOK` that edits fail at the largest SEQUENCE, and `SingleChain` the
multiplication of `notify_send`. The hazards say so too.

What the exceptions in the properties of the queue say of the code:

- `SingleChain`: a chain forks, for good, when its pass is repeated after it has
  enqueued the successor (a crash, a lost answer, an error on a later statement, or a
  lease of 60 s that runs out), and when two processes seed it at once:
  `enqueue` has no key that would find the job that is there already. The property
  is about the chains the workers seed: `notify_send` multiplies by construction, since every
  `alarm_scan` starts one and every `notify_send` renews itself.
- `ChainAlive`: a chain whose job fails `max_attempts` times is dead until a server is
  started; nothing looks for it meanwhile.
- `DeliveriesSettled`: a delivery is pending for ever after a crash or an error between its
  two inserts (as the comment at `webhooks.rs` 190 says), after a last attempt
  whose outcome could not be written, and it may be after two workers had its job.
- A delivery that succeeded may become pending, failed or exhausted again, when the job runs
  again because `complete` failed: `record_delivery_result` overwrites any status.
  `DeliveriesEnd` shows that it ends all the same.

### Fairness

`Fairness` of `CalendarStore` assumes weak fairness of each request's next step in the server and
of the deadlock detector. The code justifies it: each request is a task of the
tokio runtime that is polled until it ends, PostgreSQL runs its statements and
its detector after `deadlock_timeout`. Clients (`Send`), crashes, the purge and
the clock get none. A statement stays enabled once its lock is free until
another transaction takes it; with one-shot requests that happens finitely often,
so weak fairness suffices. `FairSyncSpec` assumes this and that the client goes on
polling with some limit it chooses; the writers may send or not.

`FairQueueSpec` assumes weak fairness of the steps of each worker, of the handlers
between their two inserts, and of time. `run_worker` is an endless loop
in a task of its own; systemd starts a server again that has exited
(`docs/SYSTEMD_SCRIPTS_REQUIREMENTS.md`), which is why `Boot` is one of its steps. Nothing is
assumed about who gets which job, about crashes (`MaxFaults` bounds them) or about the
outcome of an attempt: each may fail. That a row is not passed over for ever
follows from `ORDER BY run_at`, not from fairness.

The modules of the web client assume no fairness: nothing makes a user click or a network
deliver, and what they promise is stated for when everything is answered
(`Quiet`).

## What is proved

### The store

`CalendarStoreProofs` proves, for all constants that satisfy the assumptions of
`CalendarStore`, in particular for any number of transactions, rows and
requests:

- `TypeCorrect`: `Spec => []TypeOK`;
- `Exclusion`: no row is locked by two transactions;
- `ConditionalWriteHolds`: `Spec => ConditionalWrite`;
- `Invariant`: `Spec => []IInv`, from which the others follow.

`TypeOK` alone is not inductive: `AppendChange` needs to know that the row the
request is about has been found, `Commit` that it is locked. `IInv` adds
`Asked` (what has been asked, per step), `Targeted` (from which step on the row is
known and locked), `LocksExclusive`, `InsertedByHolder` (a locked row nobody can
see belongs to its inserter: without it a PUT under a client-chosen uuid could
take over an id another transaction is inserting) and `StillMatched`: from the
etag check to the commit the row is locked, live and unchanged.
`ConditionalWrite` is the last of these at `Commit`. `StillMatched` is kept by
other transactions because a commit only writes rows in its own `locks`, and by
the purge because it takes no locked row. The proof has one lemma per action;
all actions that give up share `AbortStep`.

`CalendarStoreSafety` proves from there:

- `UniqueKeys`: `Spec => []KeysUnique`;
- `SeriesReplaced`: `Spec => PutReplacesSeries`;
- `StoreImplementsAtomic`: `Spec => ImplementsAtomic`, the refinement: a commit is a step of
  `AtomicCalendar`, so is each purge, and every other step leaves `row`, `log` and `ctag`
  alone (`OnlyCommitCommits`, `CommitRefines`, `StepRefines`);
- `SafetyInvariant`: `Spec => []SInv`, from which they follow.

`SInv` says per transaction what each step has locked and what images it has left (`Work`): a
writer other than a PUT holds the row it edits or inserts and, once it has its journal entry, the
master; a PUT holds its master, the overrides it deletes and the one it inserts. With
`Parents` (the master of an override exists or is being written by the same PUT), `SeriesHeld`
(from `ReplaceOverrides` on the PUT holds every override of its master, and whoever is about to
commit an override holds the master), `Authored` and `EntryTrue` (the entry is the transition the
commit will make) this is what the refinement and `SeriesReplaced` need.

`KeysUnique` speaks of committed rows, and two transactions might each be about to commit half of
a clash. `KeysReserved` therefore says it of every set of running transactions that may
commit: whichever do, the keys stay unique. It is kept by a write because `Pending` makes the
writer wait until no other transaction has a clashing image *or holds the clashing row*: with the
second alternative dropped, a key could be taken that becomes the other's again when it rolls
back. Two facts about identifiers are needed for it and state what a v4 uuid is: a fresh id
has never been used, and it is in no filename a client sends or the stored rows carry.

The assumptions of the store: sentinels are outside the sets they stand beside; `Id` and
`Uid` are not empty; requests name a filename or an id according to their
operation and a creation carries no condition; the stored table and journal have
their types, older times than the clock and older `seq` than `FirstSeq`; the stored rows
obey the unique indexes and the foreign key. TLC evaluates them in every run.

### The client that follows the journal

`CalendarSyncProofs` extends both, and proves for any writers, rows, limits and stored
journal:

- `SyncTypes`: `SyncSpec => []SyncTypeOK`;
- `OnlyKnownLosses`: `SyncSpec => []NothingElseLost`;
- `SyncInvariant`: `SyncSpec => [](SInv /\ SyncInv)`, from which both follow.

The store's own invariant comes for free: a step of `SyncNext` is a step of `Next` or leaves
the store alone (`SyncSpecImpliesSpec`). `NothingElseLost` is kept by a report only if what the
report reads is right, so `SyncInv` adds what the journal says of the rows:

- `Numbered`, `OfEvents`: entries have numbers of their own, below the next one, and are about
  events, not overrides;
- `EntryNewer`: the pending entry of a transaction is newer than every entry of its event,
  because the event is locked from before the entry is numbered to the commit. So the newest
  entry is the last change, and `Latest` picks the one that matters;
- `Reinserted`: a hard-deleted id comes back under its own filename only, so that no entry
  changes the name it stands for without the event being brought back (`RenamedFrom`);
- `DeletionsTrue`: a deletion at or above `horizon` that is the last entry of its event is true.

A page that is cut tells its deletions early and moves the token only to the last of its
entries (`NextToken`), so a filename the page did not mention is still announced: its
entry lies beyond the new token. That is the heart of `ReportKeepsPromise`.

The proof found the property false of larger instances than the one TLC had been given:
both kinds of `Misleading` entries were missing from the list of losses. The run has a sixth
request now, with which it meets both.

The assumptions are those of the store and of the client: limits are positive numbers or
`NoLimit`, which is no number; the stored journal is finite, its numbers are unique, its
entries are about events that exist or existed, and one whose last entry is a deletion is not
live. The last holds unless the purge left a deletion behind before the model starts.

### The event editor

`EventEditorProofs` proves, for any events, any number of requests under way,
faults, versions and openings of the modal:

- `EditorTypes`: `EditorSpec => []EditorTypeOK`;
- `EditorImplements`: `EditorSpec => ImplementsEventEditing`, the refinement: each
  step of the editor is a step of `EventEditing` or leaves its variables alone;
- `EditorInvariant`: `EditorSpec => []EditorInv`, from which both follow.

`EditorInv` adds two things to the types. Every message in `net` is one of the
forms the page sends (`Message`), with the etag of an edit equal to the version
its form was filled from: a step of the server is judged by what the request
says, so the invariant must speak of what has been sent. And the form in edit
mode names an event and a version of it (`FormOfEvent`), from which the next
message is built. The refinement mapping computes the edits under way (`Underway`)
from `net`; the lemmas about `EditsOf` say how it changes when a message is
appended, answered or removed.

and, from invariants of their own, the editor's other properties:

- `TextIsKept`: `EditorSpec => TextKept`. `TextGuarded` says that a form with text is
  dirty, and that unless it was typed during a request, every save and deletion under way is of
  this very form and text; so an answer that hides it carries the text.
- `FormsCreateOnce`: `EditorSpec => CreatedOnce`. `Submissions` counts: of a form that was
  not submitted twice one save at most can still create, none when one has, and
  the form stays open, with its button disabled, only while the answer is on its way.
- `GridCatchesUp`: `EditorSpec => []GridCurrent`. `CatchesUp` says of each event that the
  grid shows what was written, or the refresh that was sent last will, or an
  answer that starts a refresh is under way.

### The job queue

`JobQueueProofs` proves, for any number of processes, ids, deliveries and faults and
any seeds, intervals, leases and attempts:

- `QueueTypes`: `QueueSpec => []QueueTypeOK`;
- `ChainsLive`: `QueueSpec => []ChainAlive`;
- `ChainsStaySingle`: `QueueSpec => []SingleChain`;
- `DeliveriesStaySettled`: `QueueSpec => []DeliveriesSettled`.

All rest on `Base`: types, what a worker holds and has to do at each stage
(`Positions`), and that the row behind the id a worker holds, if there is one, is of the task
it took (`SameTask`), which is true because ids are not used again. `ChainsOpen` adds
that a worker about to complete the pass of a chain has enqueued the successor,
or the chain has another job. `HeldOnce` says that a row is held by one worker, with the
attempts it counted, unless its lease ran out under it; `Single`, that nobody
is about to seed a chain that has a job. `Delivered` says that a delivery has one job in
its life, that nothing works on it before that is enqueued, and that
a worker about to complete, or to fail for the last time, has written its outcome. The
assumptions are `QueueConstants`: sentinels outside their sets, at least one seed,
which is not `notify_send`, and positive lease and attempts.

### The other parts of the web client

All theorems hold for any number of requests under way, of losses and of clicks.
`WebClientProofs` proves

- `ControlsTrue`: `SwitchSpec => []RowsTrue`;
- `ContactsAreOfBook`: `ContactsSpec => []ContactsOfBook`;
- `CodesAreShown`: `SecuritySpec => []RecoveryCodesShown`;
- `FieldsAreOfProvider`: `ProvidersSpec => []FieldsOfProvider`;
- `PrefsAreNotified`: `AccountSpec => []UserPrefsTrue`;
- `AddedOnce`: `TasksSpec => TaskAddedOnce`;
- `WrittenOnce`, `TypedTextKept`: `JournalSpec => NotedOnce` and `JournalSpec => JournalTextKept`;

`DialogProofs`

- `FailedImportsAreUndone`, `OtherFieldsStay`: `DialogSpec => FailedImportsUndone` and
  `DialogSpec => OtherFieldsKept`;
- `AccessAsAsked`, `LinkStaysShown`: `SharingSpec => AccessChangedAsAsked` and
  `SharingSpec => LinkShownOnce`;

and `IndexPageProofs`

- `ViewsFollow`, `ReloadsRestore`: `TabsSpec => []ViewFollowsSelection` and `[]ReloadRestores`;
- `AttachmentsAreOfHolder`, `OnlyHoldersErased`: `AttachSpec => []AttachmentsOfHolder` and
  `AttachSpec => ErasedFromHolder`;
- `MenusMatchText`, `PlaceIsItsText`, `AttendeesDistinct`: `BoxesSpec => []MenuMatchesText`,
  `[]PlaceMatchesText` and `[]NoDuplicateAttendees`;
- `SavesHold`: `FormSpec => SavedButForLosses`: a save of the event form loses what `Loses` lists and
  nothing else. Its invariant `FormInv` relates the form to the event it was filled from: a field
  the user has not edited is what the feed said, and what was meant is what was shown and then
  edited. There are no messages in this one.

The others share the argument. A message enters `net` at its end (`Sends`), is answered or
refused in its place (`ReplyTells`, `RejectTells`), and leaves, after which the later ones stand
one place lower (`SettleTells`, with `Was` and `Now`); the lemmas in front say so once for all. A
property that speaks of `Quiet` says nothing while a request is under way, so each invariant
says what the requests under way will do. Where a view is loaded it is `Fresh`: the last
request of its kind in `net` asks for what is selected; with none under way the view shows it;
and if an older one is handled after a newer one, the variable that excuses the view (`late`,
for instance) has been set at that moment (`Overtakes`). `PaneTrue` is the same for the panes of
the tabs, whose rows are shown in the step that serves them. The parts whose server keeps
state follow each change from the click to the row: `RowAdded`, `RowSet` and `RowListed` for a
control, `TotpSettled`, `TotpAsked`, `TotpChanging` and `TotpCrossing` for two-factor sign-in, where a
status read before a change may come after it.

`ReloadRestores` speaks of a time long after the reload: `RestoreTrue` says that until the first
list of calendars is handled `want` is what the reload replaced, that no calendar is being
removed, so that the list will still have it, and that the answer to auth/me either is
awaited or has told what the tab bar needs.

The dialogs and the forms have properties of single steps: what an old request does to what
the server has now. Their invariants say of each request that can still be accepted what
it agrees with. `EditsAgree`: an edit under way has, but for the field the user changed, the
fields the server has, and `DialogAgrees` says the same of the dialog it will be sent from, which
was filled from a sidebar that `SidebarTrue` relates to the server. `FilledOnce`: of a calendar that
is being filled there is one request under way (its creation's answer, its import or its
clean-up), and once its file is in it only the answer to that import. `PartUndone` adds that a
part of a file is in no calendar but one whose failed import or clean-up is under way, as
long as nothing was lost: a failure is followed by the clean-up, which empties the
calendar. `GrantSure` and
`ListSure` do it for access lists, where two lists of one calendar under way are noted as a
race (`OneGrant`). `AskedForText` says of a search box that its last search, waited for or sent, is
for its text, and `PlaceFound` which menus of the place may be older. For tasks and journals, `OneWrite` and its like say that one creation is
under way at most and `TextsFresh` that a text which has been added is not in the box or form
except while its answer is awaited.

Four assumptions were needed, all about sentinels: `NoneActive` (`currentBookId` is null) is no
book, `NoText` (an empty box) is nothing one types, the identifiers of *All calendars*, of
the subscription and of no calendar are no calendar's, and `Unsure`, which stands for no calendar
in the sharing dialog, is none. TLC evaluates them.

### What is only model-checked

- Liveness (`Finishes`, `Converges`, `DeliveriesEnd`), which the prover cannot treat.
- `EveryTaskDrawn` and `OffersAcyclic`, which speak of recursive walks over the tree of tasks:
  what such a walk finds in every tree takes induction over data.

## Not modelled, and simplifications

The store:

- One calendar: no index, lock or journal entry of the events spans two. The
  ctag and the token of the home set do, and are not modelled.
- One overridden occurrence per series, so that `events_uid_occurrence_idx` has
  two entries per UID. Overrides are created through `create_event` with a
  master, or in a PUT body.
- Delivered copies of invitations (`origin_of`), tasks and journals behind the
  same adapter, `split_event`, attendees, categories and what handlers do after
  the commit are left out.
- The lock an insert of an override takes on its master through the foreign key
  is folded into `AppendChange`, which locks the master anyway; the purge does
  not take a master whose override is being inserted.
- The retention period (days) is longer than any transaction: `OldEnough`.
- A fresh uuid never equals a filename some client sends or has sent.
- A client of `CalendarSync` keeps etags, not contents, and after a 409 starts
  from nothing.

The job queue:

- `imip_send` and what the passes of the chains do to other tables: a pass is done or
  fails. Claims and retries of single notifications (`claim_notification`) are not
  modelled.
- Finished rows, which only `retention_purge` reads; `priority`, always 0; `locked_by`, never
  read.
- `get_webhook` that fails counts as a disabled webhook, as in the code (`Record`,
  *stopped*). A delivery row is never deleted.
- Which webhooks an event triggers, signatures, and the test endpoint, which sends at once
  without a job.

The web client:

- The dialog that subscribes to a calendar, the search for events, the list of
  the audit log, exports, import of a vCard and the connection details: one
  request each, whose answer is shown or downloaded; nothing is kept.
- `theme.js` and the service worker `sw.js`: a stored colour scheme and the display
  of a push message.
- Templates, and the vendored widgets: jQuery, Bootstrap, the calendar, Summernote
  and SweetAlert2 are modelled by what the client asks of them.
- Times within a day, time zones, alarms and categories of an event, exact
  recurrence rules: `EventForm` has one field for details, one for the rule and
  one for timed or all-day.
- Which fields of a popup are filled in; a popup whose answer is not raced by
  anything is one step with it.
- Two parts of a page at work at once: they share the popup only.
- Occurrences of a series are one event with its etag; the widget's period is
  not modelled, every refresh lists all events.

## Plan

1. *Store, second part*: `split_event`, deletion of a master with live
   overrides, delivered copies, and inbound iTIP changes that write no journal
   entry; a series (master and overrides) as one resource with one validator.
2. *Alarms*: `alarm_scan` and `notify_send` with the claims and retries of single
   notifications, on top of `JobQueue`; `imip_send`; an abstract specification of the
   queue (a job is run to completion or given up).
3. *Scheduling*: organizer, attendee copy, outbox, lossy mail with retries and
   duplicates; the attendee's copy follows the organizer's sequence. Abstract
   specification: the last message wins.
4. *Tasks*: completion and reopening of recurring tasks (moves and cascades
   are in `TasksPane`).
5. *LoginGate*: failures counted per window against parallel attempts.
6. Pure operators: alarm windows, recurrence bounds, `truncate_changes` against
   a reference definition.
7. *Proofs*: theorems of the new modules; the invariant part of `OffersAcyclic` (a parent
   the server accepted closes no cycle) stated without the walk.
