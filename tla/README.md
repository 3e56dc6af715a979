# Verification of Job Q&A

TLA+ models of the Job Q&A backend (`src/backend`, Flask + SQLAlchemy + MySQL 8) and of the screens of the
iOS client (`src/ios/job_qa/Crewing`) whose calls can cross, their model-checking configurations, and
machine-checked proofs.

## 1. The system

| Component | State | Operations | Interacts with |
|---|---|---|---|
| Board service (`routes/board.py`, `services/board.py`, `repositories/board.py`, `board_likes.py`) | rows of `boards`, `board_likes` | list, category list, detail, create, PUT, DELETE, like, unlike | the database session of its request; the row locks of every other request |
| Comment service (`routes/comment.py`, `services/comment.py`, `repositories/comment.py`, `comment_like.py`) | rows of `comments`, `comment_likes`, the column `boards.num_comment` | create, update, delete, like, unlike | as above; `boards` through its counter |
| Request lifecycle (`app/__init__.py`, `database/session.py`, `persistence/exception.py`) | the scoped session of each worker thread | `open_session`, `close_session`, error wrapping | every route |
| Authentication (`routes/auth.py`, `services/auth.py`, `jwt.py`, `jwt_middleware.py`) | rows of `users`; stateless tokens | register, login, refresh, `token_required` | every route with a token |
| My page, user, category | none | reads | the same tables |
| Serializers, response envelopes, configuration | none | formatting, wiring | every route |
| iOS login and sign-up (`OnBoardingScreenView`, `IDPWSignUpView`, `ContentView`, `NetworkManager`) | the screen on top, the alert, the popup, the calls out, the stored token | tap login or sign-up, cancel, dismiss, relaunch; the completions | Authentication |
| iOS my comments (`MyPostCommentView`, `NetworkManager`) | its copy of the list, the calls out | open, leave, edit, delete; the completions, which fetch again | My page, comment service |
| iOS, the other screens | copies of lists, fields of a form | one HTTP call per user action | the whole API |

One gunicorn worker handles one request at a time. Workers share nothing but MySQL. How many there are
depends on the deployment: `docker-compose.prod.yml:22` starts gunicorn with its default of one,
`Dockerfile:13` with four, `docker-compose.dev.yml` a threaded development server. `Workers` is a
constant for that reason, and what holds for one worker only is stated as such.

The hard behaviour is not in any handler but between them:

- **Overlap.** A service loads a row, computes in Python and writes back (`board.num_like += 1`). At
  REPEATABLE READ the load is a snapshot; the write is not checked against it.
- **Locks.** INSERT and DELETE act on the latest rows and hold locks until COMMIT. The foreign key of a
  like row shares the lock of the board or comment, so two likers of one board deadlock.
- **Deletion.** A comment may go between the SELECT that found it and the write that uses it. Replies
  are kept (SET NULL), likes go (CASCADE).
- **Failure.** A flush fails on a constraint, a deadlock or a lock wait; a worker dies. What was flushed
  is rolled back, and the session must be, too.
- **The session itself.** `close_session` commits unless an exception left the route, and the auth
  routes let none out.
- **The client's calls.** No button is disabled while its call is out, calls are independent, and their
  answers come in any order, not at all, or after their screen is gone. What a completion does depends on
  whether the body decodes, for most calls not on the status.

What makes each part correct: a counter equals the rows it counts; a like succeeds once; nothing refers
to a deleted comment; a comment is written for, changed and removed by the user of an
answered request, who must be its author; every request is answered; nothing is
committed behind an answer; a broken session outlives its request behind the auth routes only; an email has one
account, and a login ends; an alert is about what the server knows, the main tabs belong to who logged in,
and a list shows what is there once every call has been answered. `PROJECT.json` lists every
hazard at its line, with the property that covers it or the reason none does.

## 2. The modules

`BoardService` and `CommentService` have the same build. Each worker has a place in its request (`pc`):

    idle --Begin--> received --Select...--> flush --Insert/Delete row--> commit --Commit...--> idle

- *received*: token checked, nothing read. The first SELECT fixes the snapshot, and all SELECTs of a
  request are one action because they read that one snapshot.
- *flush*: the row of `board_likes` or `comment_likes` is about to be written.
- *commit*: that row is written and locked; the UPDATE of the counter and the COMMIT remain.

Locks are not variables. Which locks a worker holds follows from its `pc`, so `RowLocked`, `BoardLocked`,
`Shared` and `DeleteBlocked` are predicates; a step that would wait is disabled. A row flushed and not
committed is invisible to others, so the tables change in the commit actions only. That MySQL rolls back
what a dead worker has flushed is therefore an assumption of the models, not something they check.
`LockFailure` is InnoDB failing a statement (deadlock victim, lock wait timeout) and `Crash` a worker
dying; both roll back. A route that does not catch an error answers 500.

| Module | Models | Variables | Actions |
|---|---|---|---|
| `LikeLedger` | the promise about likes, without requests | `posted`, `likers`, `count` | `Post`, `Like`, `Unlike` |
| `BoardService` | the board routes, service and tables | `owner` = `boards.user_id`, `numLike`, `likers` = `board_likes`; per worker `pc`, `req`, `read`, `answer` | one per statement group of a handler, named for it |
| `BoardDrift` (extends `BoardService`) | how much count overlapping requests lose | and `missed` = commits on a worker's board since it has read it, `lost` = what the commits on a board had missed | those of `BoardService`, each with its measure: `CountMissed` (a commit) or `ForgetMissed` |
| `CommentService` | the comment routes, service and tables | `live`, `author`, `on`, `parent`, `content`, `numLike`, `likers`, `numComment` = columns; the same per worker | the same |
| `RequestSession` | a request around its session | the registry's session, its pending rows, the route's place, the exception, the answer | `Open` = `open_session`, `Query`, `Flush`, `ServiceCommit`, `Teardown` = `close_session` |
| `AccountRegistry` | the promise about accounts, without requests | `accounts`, `logins`, `today` | `Register`, `Login`, `Tick` |
| `Accounts` | register, login, refresh, `token_required`, the rows of `users` and the tokens | `users`; `issued` tokens; the clock `today`; per worker `pc`, `form`, `answer`, `broken` = the session awaits a rollback | `SelectForRegister` and `InsertUser` = register, `Login`, `Refresh`, `UseToken` = a route behind `token_required`, `ReadPublic`, `Crash`, `Tick` |
| `CommentBook` | the promise about comments, without requests | `written`, `author`, `content` | `Write`, `Rewrite`, `Remove` |
| `SignUp` (extends `Accounts`) | the first screens of one phone, and its calls | `screen`, `alert`, `popup`, `token` = UserDefaults; `call` = the calls out; `serving` = the call a worker is busy with | `Tap`, `ToSignUp`, `Cancel`, `DismissAlert`, `DismissPopup`, `SplashOver`, `Relaunch`; `TakeRegister`, `FinishRegister`, `TakeLogin`, `CrashUnder` = the steps of `Accounts` under a call of the phone; `Elsewhere` = all others; `SignUpDone`, `SignUpFailed`, `LoginDone`, `LoginFailed` = the completions |
| `MyComments` (uses `CommentBook`) | the list of the user's own comments | the book; `visit`, `list` = `commentList`; `sent`, `answers` = the calls and answers under way | `Open`, `ComeBack`, `Leave`, `Edit`, `Delete`; `ServeList`, `ServeChange`, `RefuseChange`, `OtherDevice`; `GiveUp`, `ShowList`, `ChangeDone`, `LoseAnswer` |
| `BoardServiceProofs`, `BoardDriftProofs`, `CommentServiceProofs`, `AccountsProofs`, `RequestSessionProofs`, `SignUpProofs`, `MyCommentsProofs` | theorems about the seven | | |
| `MC*` | symmetry sets and the collation for TLC | | |

How they compose:

    CommentBook <--implements-- CommentService      LikeLedger <--implements-- BoardService <--EXTENDS-- BoardDrift
        ^
        | INSTANCE
    MyComments                                      AccountRegistry <--implements-- Accounts <--EXTENDS-- SignUp

The ledger and the book name the user who acts in each of their steps. That some user acts says little, so
`ImplementsBook` and `RowsImplementLedger` also tie the step to a request: each change of the tables is the abstract
step *of the user of the one request that is answered 200 or 201 with it* (`EntersBook`, `EntersLedger`). A service that
let anybody edit a comment would still behave like a book of somebody's; it breaks this.

`BoardService` implements the ledger twice over: with one worker as it is (`ImplementsLedger`), and with any number
when the count is read off the rows of `board_likes` (`RowsImplementLedger`). The difference between the two is
the column `boards.num_like`, and `BoardDrift` says how large it can be.

`SignUp` takes the steps of `Accounts` as they are and adds what the phone sees of them, so what is proved
of `Accounts` holds behind it. `MyComments` sees comments only through calls that each take effect at one
commit. It therefore stands on `CommentBook`, and `CommentService` with all its workers, locks and
failures is shown to implement that book.

Two history variables, `fresh` and `drifted`, record when a commit was computed from a read that
another commit had outdated. No guard reads them; they let an invariant say *exactly when* a counter
may be wrong instead of not at all. `missed` and `lost` of `BoardDrift` say *by how much*. In `Accounts`, `told` and the `login` of a token are history too; in
`MyComments`, `lost`, `elsewhere`, `overtaken` and the `behind` of an answer.

Abstractions: a title, category or text is what the properties tell apart (nothing, or a member of
`Contents`); list routes are reads and are left out; the boards of `CommentService` exist and stay,
because no request can remove a board (see finding `board_edit`); an id is handed out once, as AUTO_INCREMENT does.
A parent may belong to another board: the code does not compare them. In `Accounts` an email is
compared through `Fold`, as the collation of `users.email` compares it; whether a domain has a company is
membership in `Registrable`; a password is one that bcrypt takes whole (72 bytes at most); the nickname is
left out, and what it can fail is a choice of `InsertUser`. Tokens are unforgeable, and one day is one
tick: PyJWT refuses a token from the moment of its `exp` on.

In `SignUp` a form is an email and a password. A body decodes or does not: a register answered 201 or 400 has
a JSON body, a register answered 500 has none, because the failed commit of `close_session` replaces the
handler's answer (that is what `RequestSession` shows). A login calls `filterSuccessfulStatusCodes`, so only
its 200 counts. A call may fail at any moment (`SignUpFailed`, `LoginFailed`), and the server may serve it
all the same, as one of `Elsewhere`. A login that succeeds under the sign-up screen activates a second link
of one navigation stack; which view then shows is SwiftUI's choice, and the model has both.
In `MyComments` a list is the content of each comment or nothing; its order is not modelled. Whether an
answer decodes is a choice where it depends on the token or on a failure: a list refused (401) has no
`data` and leaves the view as it was, a refused edit or deletion decodes and fetches the list again as a
successful one does.

## 3. What TLC checks

Runs that pass:

| Run | Instance | Shows |
|---|---|---|
| `board_overlap` | 2 users, 1 board, 2 workers, all requests | `TypeOK` (counters never negative), `InFlightConsistent`, `CounterExactUnlessDrifted`, `CounterWithinLost`, `ReadsWithinMissed`, `LikeOnce`, `RowsImplementLedger`, `EveryRequestAnswered` |
| `board_single_worker` | 2 users, 2 boards, 1 worker | `NumLikeIsLikeCount`, `ImplementsLedger` |
| `comment_threads` | 2 users, 1 board, 2 comments, 2 texts, 2 workers, all requests but unlike | `CountersExactUnlessDrifted`, `ReferentialIntegrity`, `ImplementsBook`, `TypeOK` |
| `comment_live` | 2 boards, 1 comment, all requests | `EveryRequestAnswered`, `CountersExactUnlessDrifted`, `LikeOnce`, `LikesOfTheirUsers` |
| `accounts` | 2 spellings of one email, 1 email of no company, 2 passwords, 2 workers, 4 days | `OneAccountPerEmail`, `ToldCanLogIn`, `LoginWearsOff`, `ImplementsRegistry`, `TypeOK` |
| `session_lifecycle` | 2 workers, all kinds of request | `TeardownStoresNothing`, `PoisonedByAuthOnly`, `OneFailureRepairs`, `TypeOK` |
| `sign_up` | 1 email of a company, 1 of none, 2 workers, 2 calls out at once | `SuccessMeansTaken`, `EnteredAsOneself`, `EveryTapTold`, `TapUntilTold`, `AppTypeOK` |
| `my_comments` | 1 comment, 2 texts, 4 calls and answers under way | `CurrentUnlessExcused`, `CatchesUp`, `TypeOK` |

Runs that find what the code does and its text says otherwise (one finding each):

| Run | Counterexample |
|---|---|
| `board_rank` | Two likes read `num_like` 0, both write 1: two likers, count 1. Boards are ranked by that count. |
| `board_edit` | PUT and DELETE of a board call `get_by_board_id` without `user_id`: always 500. |
| `sign_up_alert` | The email is taken under another password: the register is answered 400, the alert says that the sign-up succeeded, and no account has the password the user typed. |
| `my_comments_order` | The view comes back from a row's detail and fetches its list, which is served and slow to arrive. The user edits the row; the edit is stored and answered, its reload is answered and shown. Then the older list arrives, replaces it, and the text from before the edit stays. Nothing was lost, no other device was involved. |

Differences between the code and its text that need no model, as one request shows them:

- `is_liked` of a detail answer is whether the reader wrote the board (`services/board.py:47`); the
  docstring at `services/board.py:34` means whether the reader liked it. `BoardService!ReadDetail` follows the code.
- A second like of a comment is answered 500: `services/comment.py:77-79` expects an `IntegrityError`, which
  the repository has already wrapped. `CommentService!InsertLike` follows the code.
- The commit of a service flushes outside every repository (`services/board.py:126`), so its exceptions are
  not wrapped as `exception.py:4` intends. `RequestSession!ServiceCommit` follows the code.

**Bounds.** Two workers are enough for every lost update, deadlock and duplicate here: each involves a
pair of transactions. Two users give both the same-user races (double tap) and the different-user ones.
Two comments give a reply and its parent. One board is enough for `board_overlap`, as like counters of
different boards have no row in common; `board_single_worker` and `comment_live` have two.
`MaxLikes` bounds only the requests (`Begin`): a counter is not
bounded by the number of users once decrements are lost (like, unlike that writes a stale value, like again ...),
so a like is requested only of a row that shows fewer. With two workers and `MaxLikes` = 2 the counter
goes beyond `MaxLikes`, the number of users and the number of rows.
`board_overlap` runs `BoardDrift`, which is `BoardService` with two history variables. `lost` only grows, so
`MaxLost` = 3 stops the likes and unlikes of a board on which that much is lost or about to be (`WithinBound`, a guard
of `Begin` alone). Within it the count is up to three above the number of rows, and one below it (two below takes a third
user), and the bound of `CounterWithinLost` is met with equality on both sides: nothing smaller than `lost` can be promised.
`board_single_worker` runs the same module; with one worker nothing is ever lost, and the bound of one is never reached.
No requests overlap there, so the run says nothing of the hazards of overlap: it shows that the code is right where
`docker-compose.prod.yml` runs it, which `board_rank` shows it is not with two workers.
`LastDay` = 4 is the sum of the two lives (two days each) of the first login's tokens, the first day on
which a login could be stretched too far. Its instance has room for one account; the theorems are for
any number.
`Calls` is the number of calls one phone has out at once: two of one kind race for an email, a login and a
register overtake each other; a slot is free again when its call has ended, so a behaviour has any number of
them. `sign_up` has an email that can be registered and one that never can, because the excuse of
`SuccessMeansTaken` is about the second; `sign_up_alert` has two passwords, because its question is whose account it is.
An account more makes it too large for its liveness property, so in `sign_up` logins overtake each other but the
tokens of two accounts never do: that `EnteredAsOneself` holds then, too, is what `OnlyOwnersEnter` proves and no run shows.
Their clock stands still (`LastDay` = 0): no token of the phone is shown to the server in these screens.
`MaxCalls` stops the user, not the app: a tap needs fewer calls and answers under way, and the fetch after
an answered change takes the place of that answer. Four leave room for a change, its list, and two of another
visit that race with them; the theorems are for any number.
`Ops` restricts a run to the requests its question is about; together the runs use all of them.

**Fairness.** `FairSpec` (`FairDriftSpec` in `BoardDrift`) has weak fairness of `Serve(w)` per worker: a worker does not stop in the
middle of a request while it can go on. It includes `LockFailure`, because InnoDB does detect deadlocks
(`innodb_deadlock_detect` and `innodb_lock_wait_timeout` are left at their defaults). Requests (`Begin`)
and deaths (`Crash`) are not fair: nothing makes them happen.
`FairAppSpec` has weak fairness of `Complete(k)` for each call: URLSession ends every call, with an answer or
with a timeout (60 seconds by default), and Moya then calls the completion. Nothing is assumed of the server:
a call that is never served fails. `FairSpec` of `MyComments` has weak fairness of the server as a whole and
of the completions as a whole: each call and each answer may be overtaken for ever, but something is served
while calls are waiting, and something is received while answers are. Taps, `Leave`, `GiveUp` and other
devices are not fair.

Every checked property is paired in `PROJECT.json` with a mutant, a definition changed as a plausible bug would
change it, that breaks the property. The mutants stand beside the definitions they change.

## 4. What is proved

`BoardServiceProofs` proves, for every number of users, boards and workers, under `BoardAssumption`
(users finite, `NoUser` none of them, `Ops` a subset of the known requests):

| Theorem | States |
|---|---|
| `TypeInvariant` | `Spec => []TypeOK` |
| `InFlightInvariant` | `Spec => []InFlightConsistent` |
| `LikeSucceedsOnce` | `Spec => LikeOnce` |
| `CounterInvariant` | `Spec => []CounterExactUnlessDrifted` |
| `SoloCounterExact` | one worker: `Spec => []NumLikeIsLikeCount` |
| `SoloImplementsLedger` | one worker: `Spec => ImplementsLedger` |
| `RowsAreALedger` | `Spec => RowsImplementLedger`, for any number of workers |

The argument. `CounterExactUnlessDrifted` is not inductive: a commit adds one to what the worker *read*,
so one must know that a fresh read still is the table's value, and that the row committed with it is new
(or, for an unlike, present). That is `InFlightConsistent`: `FreshReads` ties each undisturbed session to the
tables, `PendingRowsNew` and `PendingRowsApart` say what row locks guarantee while rows are inserted and not
committed, `TxnsOnBoards` and `NoOrphanLikes` that transactions concern boards that exist. With `TypeOK` it is inductive
(`InFlightStep`, with `CreateStep`, `LoadStep`, `FlushStep`, `CommitStep` for the groups of
actions); the counter then follows from the cardinality of a set with an element more or less
(`FreshCommit`). With one worker nothing outdates a read (`SoloFresh`), hence nothing drifts, and each step
is a step of the ledger or a stutter. With several, `RowLedgerStep` shows the same of the rows: `PendingRowsNew` makes a
commit of a like one new row, and a commit of an unlike whose row is gone is a stutter; the user of the step is
that of the request which the commit answers.

`BoardDriftProofs`, under `BoardAssumption` and for every `MaxLost`:

| Theorem | States |
|---|---|
| `DriftImplementsBoard` | `DriftSpec => Spec`: the measured service is the service |
| `CounterErrorBounded` | `DriftSpec => []CounterWithinLost` |
| `ReadErrorBounded` | `DriftSpec => []ReadsWithinMissed` |

That the count of a board is off by no more than `lost` is not inductive, because the next count is computed from a
read. `ReadsWithinMissed` bounds the read instead: by `lost` and the commits the worker has `missed`, by one closer if an
unlike's row is already gone (one of the missed commits took it), and nothing is missed exactly while the
read is fresh. The two together are the invariant `DriftInv`; `CommitCounter` is where the error of a read becomes the error of
the count, `CommitReads` where a commit adds one to what the others have missed. A decrement that stops at 0 is the
case in which the numbers do not simply add up: either it has missed something, or the read is fresh and the count, 0,
was below the number of rows already.

`AccountsProofs`, under `AccountsAssumption` (`Fold` is a function on the emails, the lives are positive,
`NoForm` is no form), for every number of emails, workers and days:

| Theorem | States |
|---|---|
| `AccountsTypeInvariant` | `Spec => []TypeOK` |
| `UniqueAccounts` | `Spec => []OneAccountPerEmail` |
| `RegistrationsLast` | `Spec => []ToldCanLogIn` |
| `LoginsWearOff` | `Spec => []LoginWearsOff` |
| `AccountsImplementRegistry` | `Spec => ImplementsRegistry` |

`UsersStep` and `IssuedStep` say what any step does to the rows and to the tokens; each invariant is then
a matter of one new row or token. `LoginWearsOff` is not inductive: a refresh token has to be known to expire
with the life it got at the login, which `ExpiryBounded` adds. The registry sees an account by its folded email,
and a login by its token. A registration is one step of it (`RegisterStep`) because the unique key refuses the email
a race has taken, and because what stands between a worker's check and its INSERT is a form that can be registered
(`CheckedRegistrable`); a login is one because its token is of a row that matched (`TokenStep`).
A refresh adds a token to a login that there is, so it is none.

`RequestSessionProofs`, for every number of workers and from no assumption:

| Theorem | States |
|---|---|
| `SessionTypeInvariant` | `Spec => []TypeOK` |
| `AnswersDecideFirst` | `Spec => []TeardownStoresNothing` |
| `BrokenByAuthOnly` | `Spec => PoisonedByAuthOnly` |
| `RepairedByOneFailure` | `Spec => OneFailureRepairs` |

The invariant `IInv` adds that rows are pending after a flush only (`PendingInFlight`) and that a read or a
write whose session broke has let its error out (`BreakKnown`). It speaks of one worker at a time, so
`WorkerStep` proves it of the worker that moves (`Sound`) and `OthersKept` carries it over for the rest.

`CommentServiceProofs`, for every number of users, boards, comments and workers, under `CommentAssumption`:

| Theorem | States |
|---|---|
| `CommentTypeInvariant` | `Spec => []TypeOK` |
| `CommentReferences` | `Spec => []ReferentialIntegrity` |
| `CommentCounters` | `Spec => []CountersExactUnlessDrifted` |
| `CommentsImplementBook` | `Spec => ImplementsBook` |
| `CommentLikedOnce` | `Spec => LikeOnce` |
| `LikesMoveByTheirUsers` | `Spec => LikesOfTheirUsers` |

The inductive invariant is `TypeOK /\ InFlight`. `RowsSound` is about the tables alone: what exists has a board, an
author and a parent that exists, what does not has no likes. `Sound(w)` is about one worker: what let its
request in (`Grounded`: an edit or a deletion is the author's) and, while nothing has outdated it, that what it read is still
so (`ReadHolds`). `PendingApart` is what the row locks give: of two workers about to commit the same like row,
both are deleting it. Deletion is what makes this longer than the boards: the target of a request may go at any moment,
so everything `Sound` says of it is conditional on its being there. `InFlightStep` puts the steps together; the
counters follow as for boards (`CounterStep`), and each commit is one step of the book (`BookStep`, from `WriteStep`,
`RewriteStep` and `RemoveStep`), taken by the user of its request: the author was compared when the request was let in, and
`Grounded` says that this user is still the author when the write comes, or that the comment is gone.
Rows of likes move in three actions only (`LikesKept`); `Sound` says that the row a like is about to commit is new and its
comment there, and `Grounded` that a deletion that finds its comment is its author's.

`SignUpProofs`, under the assumptions of `Accounts` and `SignUpAssumption`, for every number of calls:

| Theorem | States |
|---|---|
| `PhoneIsAClient` | `AppSpec => Spec`: each step is a step of `Accounts` or leaves it alone |
| `AppTypeInvariant` | `AppSpec => []AppTypeOK` |
| `SuccessTaken` | `AppSpec => []SuccessMeansTaken` |
| `OnlyOwnersEnter` | `AppSpec => []EnteredAsOneself` |
| `TapsAreKept` | `AppSpec => TapUntilTold` |

The inductive invariant `AppInv` carries the truth of an answer from the worker to the screen: `ServingInv` ties the
form a worker is busy with to the call that sent it, `CallInv` says that an answer under way told the
truth and still does (accounts are only added, `UsersGrow`), `ViewInv` the same of what is shown and stored.
`CallInv` also keeps `call` a function with the calls as its domain.
`TapUntilTold` is the part of `EveryTapTold` that needs no fairness: a call stays out, as it was asked for, until the user is told or
leaves. The rest of that property is that a call that is out does end, which is what `WF_appVars(Complete(k))` assumes and TLC checks.

`MyCommentsProofs`, under `MyCommentsAssumption`, for every number of comments, texts and calls:

| Theorem | States |
|---|---|
| `ViewTypeInvariant` | `Spec => []TypeOK` |
| `SettledViewIsCurrent` | `Spec => []CurrentUnlessExcused` |

`TypeOK` needs `NoneForgotten` (no call is awaited by a view that is gone). `CurrentUnlessExcused` speaks of settled views
only and says nothing of how one gets there. `HelpOnTheWay` does: as long as nothing is excused, a list that is
out of date, whether shown or waiting to be, has something better behind it: a fetch still to be taken or a
change whose answer will have one made (`Coming`), or a later list that is right (`Later`). When
nothing is under way there is nothing behind it, so the list shown is right. `RemoveAtFacts` and
`RemoveAtMoves` say where the elements of a sequence are after one of them was taken out.

Model-checked only: liveness (`EveryRequestAnswered` of both services, `EveryTapTold`, `CatchesUp`), which
needs fairness and ENABLED, outside the prover's reach. Every other property of a passing run is proved.

## 5. Not modelled

- Lost database connections and failing SELECTs: `pool_pre_ping` hides most, the rest is a plain 500.
- Sessions of the threaded development server: each request has a thread and so a session of its own,
  and `RequestSession` is about threads that serve many.
- The client's board detail (`BoardDetailView`) shows no board against this backend: `NetworkManager.swift:666`
  sends GET /board/detail/<id> without the `Authorization` header that `routes/board.py:37` requires, the
  refusal does not decode as a board, and the like button and the comments behind it are never reached. A
  model of them would be of behaviour that does not occur. The grouping of comments into threads is behind
  it, too.
- The client's other lists (`HomeView`, `RecommendedListView`, `MyPostView`, `ProfileView`): each fetches and shows, as
  `MyComments` does between a fetch and its `ShowList`, with nothing on the screen that changes the data: the
  buttons of `MyBoardRowView` always meet the bare 500 of `board_edit`, which does not decode, so their
  completions are never called. `PostView` sends one request and shows one alert.
- Whether two edits of one comment are stored in the order they were tapped: they need not be, and nothing says
  that they should.
- Lists, my page, categories, serializers, configuration of the server: stateless reads and formatting.
- The abandoned club screens of the client, whose endpoints this backend does not have, and the vendored Pods
  (`src/ios/job_qa/Pods`, third-party code and by far the largest part of the repository): neither is this
  program.

## 6. Plan

1. Done: `BoardService` with `LikeLedger` and `BoardDrift`, `CommentService` with `CommentBook`, `RequestSession`, `Accounts` with
   `AccountRegistry`, `SignUp` and `MyComments`, each with its proofs.
2. The error of `boards.num_comment` and `comments.num_like` bounded as `BoardDrift` bounds that of `boards.num_like`: there a
   deletion resets one counter and changes another in the same commit.
3. `PostView` and the lists it leads back to, if they come to depend on each other: today a post does not
   refresh any list.
4. `BoardDetailView`, when its request carries the header it needs: the optimistic like button over
   `BoardService`, and the grouping of comments into threads as a function checked against a definition.
5. The edit and delete buttons of `MyBoardRowView`, when the routes they call can answer.
