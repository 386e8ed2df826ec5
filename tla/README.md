# directorof.me in TLA+

directorof.me is a set of small web services. `apis/auth` keeps profiles,
groups, licences and apps and issues sessions, `apis/event` keeps a feed of
events and pushes each one to the apps installed for its group, and apps
(`apps/slack`, `apps/calendar`) handle pushed events and may post events of
their own. They share a library, `lib/python/core`, that holds the part every
request depends on: a session in a signed cookie, and permissions on the rows
of every table that follow from the groups in that session.

This directory models that code. The modules are written from the source under
`src/`; `PROJECT.json` lists, for each definition, the lines it stands for.

## The system

| Part | State | Operations |
|---|---|---|
| Session and decorators (`authorization/session.py`, `requires.py`, `flask/jwt.py`) | `flask.session` of a request; the list `original_sessions` of each decorator object, shared by a process | open and save a session, enter and leave `do_as_root`, `sudo`, `do_with_groups`, `requires.*` |
| Row permissions (`authorization/orm.py`, `flask/orm.py`) | permission slots (columns) of each row; `__initial_perms__` of each mapped object; PostgreSQL transactions | load through the permission filter; checks before insert, update, delete; bulk update and delete |
| Generic handlers (`flask/api.py`) | none | `generic_insert`, `generic_update`, `generic_delete`, `first_or_abort`, paging |
| Groups (`apis/auth` `models/group.py`, `resources/group.py`) | `group`, `group_to_group` | `Group.expand`; add, remove, replace members |
| Log-in and sign-up (`resources/authenticate.py`) | `profile`, `license`, cookies, refresh tokens | OAuth callback, sudo, session for an app, refresh, sign-up by invitation |
| Apps (`models/app.py`, `resources/app.py`) | `app`, `installed_app` | publish, install, configure, push an event to the installed apps |
| Event feed (`apis/event`) | `event`, the sequence `event_cursor_seq` | post, delete, read a page by cursor |
| Event push (`Events.post`, `PushEventToApps.post`, `events.py`, `client.py`) | none: chains of HTTP calls | post, push, handle, post again |
| Apps' own services (`apps/slack`, `apps/calendar`) | none | handle an event, set up |

How they interact: every handler starts from the session that
`JWTSessionInterface.open_session` reads from the cookies; `flask/orm.py`'s
`load_groups` hands its groups to every query and flush, so whatever the
decorators do to the session decides what the database lets through. A log-in
collects the groups of a profile, its licences and its installed app through
`Group.expand` and puts them in a new session. `Events.post` commits an event and
then calls `auth` over HTTP with a token that holds only the push group; `auth`
becomes root for the length of a `sudo` block and calls each installed app.

What is hard about it:

* Many handlers become root in the middle and may raise, abort or return there.
  The saved session lives in a list of an object the whole process shares.
* Permissions are checked in the process against values read earlier, while the
  database runs transactions of other requests at READ COMMITTED.
* Memberships of groups may form cycles, and one recursive query must find all
  groups above one, and no others.
* The cursor of an event is taken at its flush and visible at its commit, and
  clients keep their place by an event's id.
* Calls between services hold a worker each, are tried once and may be half done.

What makes each part correct:

* *Session*: elevated exactly inside of its blocks; nothing left behind for a
  later request; each block gives back what it was entered with.
* *Row permissions*: values of a row come from those its own permissions let
  write; a refused request leaves nothing; a deleted row stays deleted; every
  request that waits for a row is answered.
* *Group expansion*: exactly the groups above, to the depth asked for.
* *Event feed*: nothing twice, nothing missed, and every event arrives.
* *Sign-up*: a profile with all it needs or none at all; an answer, a token and an
  event say nothing that was rolled back; whoever is invited gets in.
* *Memberships*: a success means that the list is what was asked for; a request that
  nobody interferes with is not refused for the memberships it finds, doubled ones apart;
  each change is one of a single list, between groups that exist; names stay unique.
* *Apps*: what an installation holds was requested and accepted by its app, a config of
  null apart; a publish changes its own group's place only; what is saved is announced.
* *Push*: each event is told to its listeners, once at most; what fails in a push is not
  the failure of whoever posted the event; every call ends, and with enough workers none
  waits for itself.

## The modules

| Module | Models | Checked with | Proofs |
|---|---|---|---|
| `SessionStack` | the session decorators and the handlers that use them | `MCSessionStack` | `SessionStackProofs` |
| `Permissions` | rows under concurrent, permission-checked requests | `MCPermissions` | `PermissionsProofs` |
| `GroupExpand` | `Group.expand` round by round | `MCGroupExpand` | `GroupExpandProofs` |
| `SignUp` | `OAuthCallback.get`: log-in and sign-up by concurrent callbacks | `MCSignUp` | `SignUpProofs` |
| `EventFeed` | the feed, its writers and its readers | `MCEventFeed` | `EventFeedProofs` |
| `GroupMembership` | the requests on groups and on their lists `members` and `member_of` | `MCGroupMembership` | `GroupMembershipProofs` |
| `Memberships` | what those lists promise, implemented by `GroupMembership` | `MCGroupMembership` | `GroupMembershipProofs` |
| `Apps` | publishing, changing and installing apps by concurrent requests | `MCApps` | `AppsProofs` |
| `EventPush` | the calls by which an event is pushed, and the workers they hold | `MCEventPush` | `EventPushProofs` |
| `Delivery` | what a push promises, implemented by `EventPush` | `MCEventPush` | `EventPushProofs` |

Some definitions have a variant before them headed `Fault:`. It is the mistake
one could make in that place: a check after the statement, a queue for a stack,
`<=` for `<`. No specification uses them. They are exercises: put one in the
place of the definition it precedes and the property named for it in
`PROJECT.json` ("mutants") is violated, which shows that the property watches that
piece of code.

### SessionStack

`session[t]` is `flask.session` of the request that thread `t` serves, `original[d]`
the list `original_sessions` of a decorator that all requests of a process share
(`do_as_root`, and the `sudo` on `PushEventToApps.post`); `do_with_groups`
makes an object per call, so its list is `open[t]`'s own. A handler is the
sequence of what it does to its session (`Handlers`): require a group, enter and
leave a block, install a new session. `Raise` stands for every abort, exception
and early return: the open blocks are left, innermost first, as `with` and
`wraps` do. `own[t]` is history: what the request's session is outside of blocks.

With `OneRequestAtATime` the process is a gunicorn sync worker (share/templates
start `gunicorn -w`); without it, `flask run` with its threads.

* `session_sync`: all handlers, any step raising, two request slots taken one after
  the other, two profiles. The longest handler nests three blocks and enters
  `do_as_root` twice at a time, which is as deep as the code goes, and a second
  request starts with whatever the first left.

With threads the lists are shared by requests that overlap, and one leaves
`do_as_root` with the session of the other. Nothing in the repository says that it
may be run so in production; the run and the theorems assume `OneRequestAtATime`.

### Permissions

A request works on one row through its own database session. `Load` is a query
through the filter; `obj[r]` the mapped object with the values it was loaded with
(`orig`), those assigned since (`cur`) and `__initial_perms__` (`initial`). A flush
is checked by `CheckInsert`, `CheckUpdate`, `CheckDelete`, then waits for the row
(`RowFree`), then works on the newest committed version: `Merged` sets the columns
this request changed and keeps the rest, as the UPDATE does. `Save` renews
`initial`, as `after_save_handler`. `Bulk` is `PermissionedQuery.update` and
`.delete`, where the database evaluates the filter. `Respond` reads the row again
through the filter after the commit, because the commit expires the object.
`writer` stands for the data of a row, `ever` is history: the groups that earlier
versions of the same row let write.

* `permissions_pair`: two requests on one row with every kind of session (owner's
  group, other group, one without the table's group, root) and slots that can be
  merged column by column. Fairness is that each accepted request goes on when it can
  (gunicorn runs what it has accepted; PostgreSQL wakes one that waited for a row).
  A request may be starved by no other because each runs once and ends.
* `permissions_trio`: three requests, the least for a row to be loaded by one,
  deleted by the second and created anew by the third under the same unique field, and
  two assignments each.

One row suffices: no check looks at two rows, and the requests of this code hold one row
at a time. `MaxEdits` bounds the assignments of a request: two in `permissions_trio`, so
that a request can widen a permission in one flush and use it in the next, which
`Confined` is about; one in `permissions_pair`. The theorems hold for any number.

### GroupExpand

A round of PostgreSQL's `WITH RECURSIVE` is `Round`: the rows of the last round
are joined with `group_to_group` and each new row carries the path to its group.
The final join with `Group` is `Return`.

* `expand` takes every graph on three groups (512, self-memberships included) and
  graphs on five groups with diamonds, cycles and ways of unlike length, since depth is
  counted along a path and three groups hardly have two ways of unlike length;
  every group of them and every depth from 0 to 5 and none.

Fairness: the database carries a statement through.

### EventFeed

`Flush`, `Commit`, `RollBack` and `Delete` are what writers do to an event. `Get` is
`Events.get`: `Found` its 409 for a link whose event is gone, `Rows` the query,
`Objs` its limit, `Answer` the page with its links. Pollers follow `next` for ever,
walkers take an event for `max_id` and follow `prev`. `Matching[c]` is what a client's
filter and groups let through.

To a client, an event that it may not get is like one that was rolled back: a cursor
with nothing behind it. So the runs let every client get every event.

* `feed_pages`: pages of two, three events, and a poller and a walker at once: full,
  partial and empty pages, gaps, a walk with a border between its pages, deletions
  between two pages. Fairness is that an insert that was flushed is committed or
  rolled back (a request is run to its end), and that pollers poll. `EventsArrive` says of
  an event that is not late, is not deleted and belongs to a poller that has not lost its
  place that the poller gets it.
* `feed_missed`: see the findings.

### SignUp

`req[r]` is a callback of `OAuthCallback.get`, its place (`at`), what it has read
(`known`, `bot`) and the rows its transaction has inserted (`wrote`); `profile`,
`bot` and `installed` are the committed tables. `token[p]` stands for the cookies of
a browser, which `save_session` sets with every answer, errors included, once
`session.save` is set. `CreateProfile` and `CreateBot` wait for an open transaction that
inserted the same email or team and fail if it was committed, as PostgreSQL does
for a unique column. `Redirect` is the early return that asks Slack for the bot's scopes
and rolls the new profile back; `ReturnFromSlack` comes back with them.
A callback by Slack carries the bot's token only then: `service` is
`"slack bot"`. `Error` is any exception, a read that fails after the commit among them,
and `Die` a killed worker, in any place.
An `installed_app_id` and the groups of the session are left out: the first changes
the session only, the second are in `SessionStack`.

* `sign_up`: two people of one team, one of whom may have a profile from the start,
  two callbacks at a time, both services and one failure. Two callbacks can be of one
  person or of both, so they meet on the email and on the team, and two of a member
  can install the app twice; one failure, anywhere, leaves the other
  callback and all later ones to continue from what it left. For any number of failures
  the safety of all but the events is proved.
* `sign_up_live`: fairness is that a worker goes on with its request (`Handle`), that
  a person with an invitation and no profile tries again, and that they follow
  Slack's link; the last two are strong, because people do not give up when the
  services are busy.
* `sign_up_mate_stuck` finds `InvitedSignUp` violated with one team: see the findings.

### GroupMembership and Memberships

`name[i]` is the name of row `i` of `group`, `rows[e]` the number of rows that
`group_to_group` has for membership `e`: the table has no unique constraint, so it is a
number and not a truth value. `members` and `member_of` are two views of that table
(`Loaded`, `Part`, `Link`). A request is `Find` (target and named groups, by name),
`Load` (the lazy load of the list, and what the handler makes of it: `PostMember`,
`DeleteMember`, `PutMembers`, `DropGroup`), and one of `SaveList`, `SaveUpdate`,
`SaveDrop` or `Refuse`. Flush and commit are one step, because what is rolled back has
no effect and what another transaction holds is waited for. A PUT and a DELETE find
their target by its name once more, in `generic_update`, and answer 404 if it was
renamed or dropped since (`FindNoMore`). `Stale` is what SQLAlchemy's unit of work
refuses (a DELETE that matches more or fewer rows than it expects), `Conflict` what
PostgreSQL refuses because of the names and memberships that the module has. What else
it refuses depends on columns and tables that the module does not have, and is a choice
(`MayConflict`): the unique pair of `scope_name` and `scope_permission` of a group that
is made or updated, and the foreign keys of profiles, licences, apps and installations
onto a group that is dropped. `touched[r]` is history: what others changed while `r` was
at work. Who may do what is in `Permissions`; here every request may read and write
every group.

`Memberships` knows groups and memberships only: a step changes one list of one group,
makes a group, or drops one with all its memberships. `ListsChangeOneByOne` is
the refinement (a membership is there if it has a row, a group if it has a name).

* `memberships`: two groups in every relation of one to itself and to the other,
  a third name that requests make a group of, three requests of eleven kinds, so
  that a POST by one list, a PUT by the other and a DROP meet in every order; three
  requests are what it takes to add a membership twice and then find it so. `Ids` bounds
  the rows: two more than there are at the start, for the groups that are made.
  Each request is made once, so that the system may stop.

### Apps

`app[x]` and `installed[i]` are the rows with their lists of scopes; a schema of
configs is the set of configs it accepts. A request finds its rows and validates
against them (`FindPublish`, `FindUnpublish`, `FindApp`, `FindToInstall`, `FindInstalled`,
`FindToUninstall`); its flush and commit (`SaveApp`, `DropApp`, `SaveInstall`,
`SaveInstalled`, `Uninstall`, or `Refuse`) write a column only if the request has changed
what it loaded (`Column`), add and remove the scopes that differ from those it loaded
(`WrittenList`), and are subject to the foreign keys and to the number of rows that
the unit of work expects (`Clear`). `SaveInstall` and `SaveInstalled` are not the end:
`Announce` reads the installation and its app again, through the filter, to emit the event of
a new one and to answer, which fails if they are hidden or gone. `SaveApp` and `PostApp` may
answer a failure after their commit, too.
`Publishing`, `Updating` and so on are the bodies of the requests, with `<<>>` for a field
that is left out. The config of an installation may be left out or null: the column is
nullable and `validate` asks no schema about None, so `Valid` looks at a config only if
`NamesConfig`. `ReadableBy` is the filter on apps, used where the group of a requester
matters: an installation, and an update of one. An update that names neither app nor
scopes nor a config to validate gets past an app that its requester may not read
(`NamesNothing`): the app is loaded as None and put back as None.

* `apps`: an app with one scope and one with none that accepts another config, published
  to one group or to two, an installation or none; three requests of eighteen kinds, so
  that an app may lose its scope, its reader or itself between the check and the commit
  of an installation, and a third request may see what came of it; configs are named,
  left out and null. Two installations and one new app are as many as three requests
  make in the cases where they meet. Each request is made once, so that the system may
  stop.

### EventPush and Delivery

`calls` has every HTTP call, named by its path from a client's request to install an
app: `<<r>>`, the event it posts, the push of that event, the handler it is pushed to,
the event the handler posts, and so on. `calls[c].at` is how far the handler of `c` has
come; a call that is neither `"queued"` nor `"done"` holds one of the `pool[s]` workers
of its service (gunicorn sync workers, one request each), also while it waits for the
answer of a call of its own. `listening` are the installed Slack apps, the only ones
whose app has listeners in the bootstrap data; `events` the committed events. `Kill` is
gunicorn's arbiter or a crash, at any time of a call from its acceptance on: the caller
gets nginx's error page, the dead worker's calls go on as orphans. gunicorn aborts a
worker by an exception in it, and the `finally: return event` of `Events.post` swallows
that one too while the event refreshes its token and is pushed: there the event may be
answered with success all the same. A SIGKILL or a crash is swallowed by nothing, so
that `"broken"` is possible there, too. `InsertBreaks` is a trouble of an insert itself:
`generic_insert` is refused, or fails when it reads the row after the commit, or the
answer cannot be dumped. So an event may be in the feed although its poster hears of a
failure; whether the poster tries again is not modelled. `answer` tells a call that is
`"broken"`, by such a trouble of its own, from one that is `"failed"` for what it was
told; no caller can tell them apart, but `FailuresStayBehind` does: a posted event and a
request to install are never `"failed"`. `troubles` bounds how many calls are broken.
`refresh` and `read` make no calls; a refresh may fail (401), which is all that a kill
of it would tell.

`Delivery` promises of each event: it is pushed once at most and after its commit; the push
tells each app that listens when it starts, once at most; it has told them all when it
is over, unless it is abandoned. `DeliveredAsPromised` is the refinement.

* `push`: two clients install an app each, one of them the Slack app, in three settings.
  Pools of 5 and 3 workers are just above the bound `Enough` with two chains, with one
  broken call, which keeps the states few enough to check; 1 and 1 is the least there
  can be, where the first push already waits for itself; with 3 and 2 workers a second
  Slack app listens from the start, so that two are told in one push and one client can
  ask, and two calls may break, so that both handlers of a push may, or one and the push
  itself. Only in the second setting any number of calls may break, because each of them
  may be stuck there. With one worker less of either (4 of `auth` or 2 of `event`), two
  chains get stuck: `Enough` is tight. Fairness is that the services do something while
  there is something to do. That a stuck worker is killed in the end is gunicorn's
  timeout, without which `EveryCallEnds` would be false in the second setting. All calls
  end, so that the system may stop.

## Findings

1. `NothingMissed`, run `feed_missed`. `since_id` is documented as "get all events
   since this event". A cursor is taken before its commit, so a poller can pass an
   event that is committed late, and never gets it. `OnlyLateMissed`, which is proved,
   says these are the only ones, and `SerialMissesNothing` that inserts that do not
   overlap miss nothing.
2. `InvitedSignUp`, run `sign_up_mate_stuck`. The bot of a team is shared so that "the
   sign-up process can be streamlined for all but the first installing user"
   (`models/slack.py:14`). It is not streamlined but closed: a later member of the
   team comes with the identity scopes, is not redirected since there is a bot, and
   the callback reads `token["bot"]` from an answer that has none.

The models also reach what follows. No document says it should be otherwise, and the
properties are stated so that they leave exactly these cases out:

* A DELETE on a list that names the list's own group empties the list
  (`resources/group.py:281` compares `target.name`).
* Two requests that add a membership at once leave two rows of it; later requests that
  remove or replace it fail with 500. `RefusedForDuplicates` says that a POST, PUT or
  DELETE on a list is refused for nothing else, if it makes no new group and nobody
  interferes. A new group may have a scope pair that is taken, and a group that a profile,
  a licence, an app or an installation points at cannot be dropped: 400 or 500 with nobody in
  the way.
* A config of null is stored whatever the app's schema says of it (`resources/app.py:433`),
  although the model calls it conforming (`models/app.py:107`).
* Of two concurrent publishes of an app one may be lost, and permissions changed
  by two requests are merged column by column.
* A PATCH that moves an installation to another app and names no scopes keeps the scopes
  it has, whether or not the new app requests them; a schema may change after a
  config was accepted.
* Someone who has a profile can have the Slack app installed twice by two callbacks.
* An event may be in the feed and never be pushed, and an installation may be in the
  table and never be announced, after a failure between the two; and their poster and
  installer may be answered with a failure all the same.
* The `self` link of a full page backwards has both `max_id` and `since_id`, which
  the same endpoint answers with 400.

## Proofs

Each theorem holds for every value of the constants under the assumptions the
modules name.

| Theorem | Says | Argument |
|---|---|---|
| `SessionStackProofs!StackType`, `StackDrained`, `StackRestores` | types; no saved session is left between requests; a block gives back what it was entered with. Each assumes `OneRequestAtATime` | `IInv`: one busy thread at most (`OneBusy`); a block's `depth` is where its copy lies in the list and the copy there is its `before` (`Matched`); depths increase along the open blocks (`Ordered`); every entry of a list belongs to an open block (`Covered`). The last three are needed because `LeaveBlock` pops whatever is last |
| `SessionStackProofs!StackGroups` | `EffectiveGroups`. Assumes `OneRequestAtATime` | `AllNested`, on top of `IInv`: there is a height for each step of what is left of a handler's script, which goes up at an `Enter`, down at a `Leave`, is 0 at an install and at the end, and is now the number of open blocks (`Nests`); and the session is the one outside of any block with the groups of the open blocks (`With`). Without the first nothing says that a handler leaves the blocks it has entered |
| `PermissionsProofs!TypeCorrect`, `WritersConfined` | types; `Confined` | `IInv`: a row is held by one request (`LockInv`); an object that is loaded has `initial` from a version of its row (`ObjectInv`, `HeldInv`); each id is of one creator (`FreshInv`); and along the versions of one row `ever` only grows (`LineageInv`), so a check against old permissions is a check against something `ever` contains |
| `PermissionsProofs!DeletedStaysDeleted` | `NoResurrection` | a held version where the table has no row was created by its holder (`BirthInv`) |
| `PermissionsProofs!RefusedIsTraceless` | `RefusedLeavesNoTrace` | a request's values are in its own held version until its commit, and one that commits is not refused later (`TraceInv`) |
| `GroupExpandProofs!TypeCorrect`, `ExpandIsExact`, `PathsCorrect` | types; `ExpandsExactly`; and every row's path is a way by memberships that passes no group twice (`PathsAreReal`) | each row that is no longer in `working` has had all its memberships followed, or they lead to a group already on its path, which is itself the end of a row |
| `GroupExpandProofs!ExpandIsToDepth` | `ExpandsToDepth` | `Deep`: a row with a path of n groups is at most n - 1 memberships away (`InDepth`); the start of a path was found earlier, by a path that is no longer (`Prefixes`); and what a row of an earlier round leads to has a path at most one longer (`Grown`), be it cut at a cycle. The reference `Within` is a recursive function: it is unfolded from an explicit witness, and compared by induction on the depth |
| `GroupExpandProofs!RoundsAreFew` | each round finds longer paths than all before, and no path is longer than there are groups: after so many rounds the recursion is over. Assumes finitely many groups | a round works on the longest paths found (`Longest`); a path passes no group twice (`PathsAreReal`) |
| `EventFeedProofs!FeedType`, `OnlyLateAreMissed`, `SerialMissesNothing` | types; `OnlyLateMissed`; `NothingMissed` when inserts do not overlap | cursors are distinct and below the sequence; a poller's `since` is the newest of the pages it has had, so a page leaves no gap below its new place |
| `EventFeedProofs!WalksAreComplete`, `PagesAreDisjoint` | `WalkComplete`; `PagesDisjoint` | `Read`, on top of `IInv`: what a poller has got is at or before its place (`Behind`), what a walker has got is after the event it goes on from (`Walking`), and what it set out to get is got, deleted, or not after that event (`Owed`). The lemmas say that the last rows of a query are all of them or exactly as many as the limit (`LastIsFull`), so that a short page is the end |
| `GroupMembershipProofs!TypeCorrect`, `KeysHold`, `DuplicatesRace` | types; `NamesAndKeysHold`; `DuplicatesNeedARace` | `IInv`: what a loaded request adds and removes is of its target's list (`Placed`), and what it adds either has no row or was added by another in the meantime (`Raced`). Without `Placed` the foreign keys cannot be shown to hold after `SaveList`, and without `Raced` nothing is known of a second row |
| `GroupMembershipProofs!AnsweredTruly` | `AnsweredAsAsked` | `AsNamed`, on top of `IInv`: for each membership whose ends nobody has touched, a loaded request adds and removes what the names in its body say of the tables as they are now, although it has looked at them at two earlier moments |
| `GroupMembershipProofs!RefusalsExplained` | `RefusedForDuplicates` | `Intact`, on top of `IInv`: as long as nobody has touched anything, a request's target and the groups it adds are there, the names it makes are not taken, what it removes is there, and what a drop leaves is not the target's. So only the numbers of rows can be wrong; and if each membership has one, they add up (`SumOfOnes`, by induction on the number of memberships). Nor is its target lost to `FindNoMore`; and who makes no group and neither updates nor drops one meets no other constraint |
| `GroupMembershipProofs!MembershipsImplemented` | `ListsChangeOneByOne`: the refinement of `Memberships` | each action maps to one step or to a stutter; `SaveList` needs `Placed` to change no other list |
| `AppsProofs!TypeCorrect`, `GrantsAreRequested` | types; `GrantedWereRequestedOnce` | `IInv`: apps request and accept part of what they ever did (`Covered`); an installation is of an app it has been of (`OfWas`); what a request has found and is about to grant, its config unless that is null, was requested and accepted by then (`RequestsFit`), against histories that only grow |
| `AppsProofs!InstallationsValid`, `InstallationsAnnounced`, `AppsPublished` | `ValidWhenAnswered`; `SavedIsAnnounced`; `PublishedAsAnswered` | `RequestsCurrent`, on top of `IInv`: of the rows a request has found, those that nobody has touched are still as it found them, and the app that a request has asked for is still its requester's to read, unless the request names nothing |
| `SignUpProofs!TypeCorrect`, `SignUpIsWhole`, `AnswersAreTrue`, `AppTokensHaveApps` | types; `SignedUpWhole`, `NothingWithoutProfile`; `OkMeansDone`; `AppTokensAreReal` | `Sound` of each callback says what its place implies of the tables and of `wrote`: one that inserted a profile has a bot found or inserted when it commits, and the person has no installation yet; `EmailsApart`: two open transactions never hold the same email, without which a person could be installed twice |
| `SignUpProofs!AnnouncedAfterCommit` | `AnnouncedIsInstalled` | `Counted`: for each person, the installations announced and the callbacks that have committed one and not announced it yet are no more than the installations in the table |
| `EventPushProofs!TypeCorrect`, `FailuresContained` | types and the bound of the pools; `FailuresStayBehind` | `IInv`: the calls are a finite tree (`CallTree`): each call's caller is a call, what a call is at is a step of its kind, and it has made only the calls that come before that step (`MayHaveMade`); an event is committed once its call has got past its insert (`Posting`), and so is the installation of a Slack app (`Listening`); no service has more busy calls than workers (`PoolsHold`). Every action moves one call on and makes at most one, which is proved once and used for all |
| `EventPushProofs!PushesAsPromised` | `DeliveredAsPromised`: the refinement of `Delivery` | an event's status is read from its call and from that of its push; `CallTree` says that there is one push and none before the commit |
| `EventPushProofs!EnoughWorkers` | `EnoughWorkersNeverStuck` | a chain holds two workers of `auth` and one of `event` at most, by the shape of its paths (`ChainOf`, `ChainSizes`), so that both have one free. Suppose that all calls wait. Then no call waits at `auth` for a worker, so there is no refresh and no read; so no event waits but for its push; so no handler waits but for a worker of `slack`, and none of those is busy; and so on up the chains: there is no call |

Action properties and the refinements follow from the invariant and one lemma for each
action. All assumptions are named in the modules and evaluated by TLC in the runs:
tables to start from satisfy their constraints (`TablesAssumption`, `StartsAssumption`),
requests have the fields of their kind, and a DELETE of a group names no others
(`AsksAssumption`), names, configs and rows are not the values that stand for NULL
(`NoNameAssumption`, `NothingAssumption`), an installation is not called as a kind of
call is (`NamesAssumption`), and there are finitely many callbacks
(`RequestsAssumption`).

Induction is by a lemma, `Naturally`, that says which sets have all naturals: it follows from
the library's theorem on well-founded sets, and so do the facts about recursive
functions (`Within`) and folds (`MapThenSumSet`) that the proofs need.

Model-checked only: liveness (`EveryRequestAnswered`, `Answers`, `EventsArrive`,
`InvitedSignUp`, `EveryCallEnds`), which the proof system cannot treat under fairness.
Of two of them the part that is not about fairness is proved: `RoundsAreFew` bounds the
rounds of `Answers`, and `EnoughWorkers` excludes, for large pools, what only kills resolve
in `EveryCallEnds`. All other properties of the passing runs are theorems.

## Not modelled

* The contents and the lifetime of tokens: `Session.put` issues a new access token
  from the groups in the refresh token and looks at nothing else, so that it has no
  state to model; how long a membership that was taken away may live on in a session, and
  with which state of the tables a token's groups have to agree, is documented
  nowhere. The statements that collect the groups are `GroupExpand`'s.
* Licences: seats and dates are declared and never consulted at log-in.
* `calendar`: an install redirect, which ends in the request to install that `Apps`
  has, and an icon. It has no event handlers.
* `encrypt` and `decrypt` of an installation, `crypto`, `schemas`, `specify`,
  `registry`: pure functions or start-up code. Offset paging and the OpenAPI
  description. The web front end, a stub.
* Migrations run once; their constraints and bootstrap data are mapped where a module
  uses them.

## What could follow

1. Measures for the other liveness properties: what each step of a call chain, of a
   callback or of a walk brings nearer to its end.
2. Theorems that hold under stricter operation than the code imposes, beside
   `SerialMissesNothing` and those of `SessionStack`: what the lists of a group promise if
   requests on it do not overlap.
3. The pushes of `EventPush` composed with the feed of `EventFeed`, once a client of this
   code uses both.
