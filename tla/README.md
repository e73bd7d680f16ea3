# Verification of the OpenShift Console (Bridge)

The console is a Go server ("Bridge") that authenticates users and proxies the
Kubernetes API, and a React/Redux front end that keeps the cluster's objects in
the browser, up to date over WebSockets. This directory holds TLA+ models of the
parts whose correctness depends on the order of events, the TLC runs that check
them and the theorems the TLA+ proof system checks.

Run `tlc -workers 2 -config X.cfg M` for a run of `PROJECT.json`, and
`tlapm M.tla` for a module named `...Proofs`.

## Inventory

| Component | Source (under `frontend/public` unless it starts with a Go directory) | State | Operations | What is hard |
|---|---|---|---|---|
| OIDC session store | `auth/session.go`, `auth/auth_oidc.go`, `auth/loginstate.go` | `byToken`, `byAge`, a mutex, the clock | `login`, `logout`, `authenticate` through `addSession`, `getSession`, `deleteSession`, `pruneSessions` | requests interleave between critical sections; one read is not locked; two structures for one set |
| WebSocket proxy | `pkg/proxy/proxy.go` | two connections, `errc`, `writeMutex` | two copiers and a ping ticker | who ends whom |
| WebSocket factory | `module/ws-factory.js` | `_state`, `ws`, `_connectionAttempt`, `_messageBuffer`, `_paused`, `options` | connect, reconnect, buffer, flush, pause, destroy | retries overlap sockets still connecting; late events; a full buffer |
| List watch | `module/k8s/k8s-actions.ts`, `k8s-reducers.ts` | `WS`, `POLLs`, `REF_COUNTS`, one entry per list | `watchK8sList`, `stopK8sWatch`, the reducer's list operations | awaits between a check and its use; unmount and remount; failed pages; disconnections |
| Object watch | the same | one entry per object | `watchK8sObject`, `stopK8sWatch`, `modifyObject` | a poll and a socket write one entry, late answers |
| API discovery | the same, `get-resources.ts`, `components/utils/firehose.jsx` | `RESOURCES`, the interval, the lists watched | `watchAPIServices`, `getResources`, remounting | lost and overtaken discoveries |
| Requests | `module/k8s/resource.js`, `co-fetch.js` | none | reads and writes | given up after 20 s while the server may still act |
| YAML editor | `components/edit-yaml.jsx`, `utils/status-box.jsx` | text, displayed version, `stale` | load, type, save, reload | a watch event while editing |
| Event stream | `components/events.jsx` | the messages, sorted and filtered | flush, filter, pause, change of namespace | replays, deletions missed |
| Log streaming | `components/pod-logs.jsx`, `utils/resource-log.jsx`, `line-buffer.ts`, `log-window.jsx` | lines, unfinished line, status, lines behind | open, message, pause, restart | restart while messages arrive |
| Pod terminal | `components/pod-exec.jsx`, `terminal.jsx` | the terminal, its socket | connect, change container, fallback without a shell | close after error |
| Secret forms | `components/secrets/create-secret.tsx`, `utils/file-input.tsx`, `modals/configure-ns-pull-secret-modal.jsx` | rows, the state of each subform, the data to be saved | type, add, remove, read a file, upload, save | three copies of one thing |
| Role bindings, roles | `components/RBAC/` | what the page shows, the forms of a rule and of a binding, the request | remove, replace, edit, tick a box, choose a role | others write at the same time; a dropdown with a state of its own |
| Active namespace | `ui/`, `components/app.jsx`, `namespace.jsx` | store, path, history, localStorage | link, back, select, reload | four copies of one thing |
| Feature flags | `features.ts` | a flag: pending, on, off | detect, ask for access, retry every 15 s | retries and answers against the selector |
| Polling boxes and graphs | `components/graphs/`, `safety-first.tsx` | a timer, the last answer | poll, new query, unmount | an answer after the unmount |
| LDAP settings | `components/cluster-settings/ldap.jsx`, `server/server.go` | the form's version, a state machine | edit, test, continue | several tests in flight |
| Dialogs | `components/modals/`, `service-catalog/`, `utils/promise-component.jsx`, `factory/modal.tsx` | a dialog, its requests | submit, retry, escape | the second of two requests fails |
| Scaling | `components/modals/configure-count-modal.jsx`, `utils/deployment-pod-counts.tsx` | the count waited for | save, wait | the watch overtakes the answer |
| Environment editor | `components/environment.jsx` | a copy of the variables, `modified`, `stale` | edit, save, reload | a watch event while editing or saving |
| Rows of names and values | `utils/name-value-editor.jsx`, `value-from-pair.jsx`, `modals/tags.jsx` | the rows, the one that is dragged | add, remove, change, drag, save | a save answered during a drag |
| Dropdowns | `utils/dropdown.jsx` | the choice, rows, filter, bookmarks, the row under the keyboard | open, filter, arrows, bookmark, pick | the parent changes choice and items meanwhile |
| Cluster monitoring | `components/cluster-settings/cluster-monitoring.jsx`, `utils/units.js` | one text with all settings, an open dialog | open, type, save | every save writes all settings |
| Cluster updates | `components/channel-operators/`, `utils/operator-states.jsx` | what the operators report, what the page has of it, the button, a dialog | pause, resume, start, check, choose a channel | the operators and others write while the page is behind |
| Impersonation | `ui/ui-actions.js`, `redux.js`, `co-fetch.js`, `pkg/proxy/proxy.go` | the impersonated user or group | start, stop, request, open a socket | two ways to name the user |
| OAuth login flow | `auth/`, `server/middleware.go`, `module/auth.js`, `co-fetch.js`, `tokener.html` | cookies for session, state and CSRF, the path to come back to | `LoginFunc`, `CallbackFunc`, logout, 401 | several tabs share all of it |
| Client tokens and kubectl | `components/client-tokens.jsx`, `modals/kubectl-config.jsx`, `server/server.go` | the clients shown, two dialogs | list, revoke, render a configuration | answers out of order |
| Start-up of the server | `cmd/bridge/` | flags, environment, a file, what the server is made of | merge, validate, contact the providers, serve | choices that depend on each other |
| HTTP server | `server/` | configuration | routing, headers, CSRF check, handlers | in the modules of the pages that use them |
| Resource lists | `components/factory/`, `row-filter.jsx` | address, filters in the store, boxes and input on the screen | type, tick, sort, change of namespace | three places for one filter |
| Kinds and their pages | `models/`, `kinds.ts`, `module/k8s/k8s-models.ts`, `resource-list.tsx`, `create-yaml.tsx` | static kinds, discovered kinds | link, look up, watch, search, create | several keys for one kind |
| Operator lifecycle | `components/operator-lifecycle-manager/`, `modals/subscription-channel-modal.tsx`, `installplan-approval-modal.tsx` | an object, its links, a dialog | change the channel, approve, wait | the operator writes the object too |
| Pages loaded late | `utils/async.tsx`, `resource-list.tsx` | the loader, the component it brought | load, retry, change of loader, unmount | loads of two loaders overlap |
| Alerts | `alert.tsx` | one entry for all rules, the labels of the address | poll every 15 s, follow a link | pages that are gone still write; rules told apart by labels only |
| Chargeback reports | `chargeback.tsx` | the last answer, its columns, two arguments of the address | fetch, group, sort | the report ends during a fetch |
| Navigation | `nav.jsx`, `monitoring.ts` | per section: folded out, the link that is lit; the monitoring routes | follow a link, fold, detect | every section decides for itself which link is lit |
| Overview of a project | `overview.jsx`, `project-overview.jsx` | items, filtered, grouped, the label grouped by | filter, choose a label, change of namespace | everything derived is state, derived again after the update |
| Other pages | `cluster-overview.jsx`, `kubevirt/` | none of their own | rendering | none of its own |

How they interact: a page renders a Firehose, which dispatches `watchK8sList` or
`watchK8sObject`; these send requests, dispatch the answers to the reducer and open a
`WSFactory` whose batches go to the reducer too. Editors and dialogs copy what the
store held at some moment and write it back later. Every request and socket passes
the Go server, which asks the session store who the user is and hands sockets to
the proxy.

What makes each correct:

- *Session store*: the two structures agree; the size is bounded; a logout is
  final; nobody is signed out by anything but the own logout, the expiry, or
  more than `maxSessions` later logins.
- *WebSocket factory*: messages are delivered in order, at most once, and only
  the oldest are dropped; a reconnecting object is never stuck; destroy is final;
  a connection that cannot be made is given up after `timeout`.
- *List watch and reducer*: after the last unmount nothing is left; while shown,
  somebody works for the list; once everything was received it equals the
  server's; the socket starts from what the list shows.
- *Object watch, discovery, events, polls*: what is shown becomes what the server has,
  whatever was late, lost or overtaken.
- *WebSocket proxy*: when one side ends, the other does, nothing stays open and no
  goroutine stays behind.
- *Editors*: what is typed is kept; what is saved is what is shown; a save does not
  undo what others wrote; the user is told when the page is old.
- *Logs, terminal*: nothing of another container or session is shown.
- *Dialogs*: one that closes has done all of its work; none is busy for ever.
- *Forms*: what is saved is what the fields, boxes and dropdowns show, though each of them
  keeps a state that its parent copies; one click changes one thing.
- *Login, impersonation, start-up*: every request is sent for the user who is shown, with a
  token that the server accepts, and nobody is lent another's.
- *Cluster updates*: the button offers what can be done, and the last click on it counts; a task
  that is not completed has a line.
- *Navigation, overview*: the link that is lit is that of the page, a section folds only
  when its title is clicked; a workload is drawn once, in its group, with its newest controller.
- *Kinds*: whatever key a kind goes by, links, watches and forms are those of that kind.

## Modules

| Module | Role |
|---|---|
| `SessionStore` | model of the session store and its three handlers, with its properties |
| `SessionStoreProofs`, `MCSessionStore` | its theorems, its instance |
| `WSFactory` | model of one WebSocket factory object and its browser sockets |
| `WSFactoryProofs` | its theorems |
| `K8sList` | the reducer's pure operations on one list |
| `ListWatch` | `watchK8sList`, `stopK8sWatch`, the reducer entry, the API server, the properties with the refinement of `WatchCycle`; uses `K8sList` |
| `WatchCycle` | the abstract fetch, watch, wait cycle the comment in `k8s-actions.ts` promises |
| `ListWatchProofs` | its theorems |
| `WSProxy` | model of one proxied WebSocket: handler, copiers, ticker, peers; its properties |
| `WSProxyProofs` | its theorems |
| `K8sObject`, `EditYAML` | the watch of one object; the YAML editor over it |
| `Discovery` | API discovery and the pages whose lists depend on it |
| `EventStream`, `PodPages` | event stream; pod log and terminal over a WebSocket |
| `SecretForm`, `SourceSecret`, `PullSecret` | forms of key/value and image secrets, of source and webhook secrets, of a namespace's pull secret |
| `RBAC` | bindings and roles under concurrent writers, the form of a rule, the form of a binding |
| `Environment` | a workload's variables as one value under concurrent writers; rows of names and values |
| `LdapSettings`, `MonitoringSettings`, `ChannelOperators` | the LDAP settings; the monitoring settings; the cluster's updates |
| `Namespaces`, `Features`, `Polling` | active namespace; feature flags; polled boxes and pages loaded late |
| `Alerts`, `Chargeback` | the pages of alerts and their rules; the usage table of a report |
| `Dialogs`, `Dropdown` | dialogs of one or two requests; the count of a workload; a dropdown |
| `Listing`, `Resources` | the filters of a list; the kinds and how they are found |
| `Login` | login and logout of the tabs of one browser |
| `Account`, `Impersonation`, `Bridge` | tokens and kubectl; acting as another user; the start of the server |
| `OperatorLifecycle` | subscriptions and install plans; the list of operators and what an instance owns |
| `Navigation`, `Overview` | the navigation at the side; the workloads of a project |
| `Selections` | what `filter`, `omit`, `pick` and `find` keep of a sequence, in closed form |
| `Pages` | the pages composed: its runs check them |
| `PageProofs` | what `Namespaces`, `PodPages`, `K8sObject` with `EditYAML`, `Polling`, `EventStream`, `Dropdown`, `Alerts`, `Navigation`, `Listing`, `Environment`, `Chargeback`, `Overview`, `Resources`, `Discovery` and `Features` keep; lemmas about `Selections` |
| `FormProofs` | what `LdapSettings`, `MonitoringSettings`, `ChannelOperators`, `Dialogs`, `Account`, `PullSecret`, `SourceSecret`, `SecretForm` and `OperatorLifecycle` keep; extends `PageProofs` for its lemmas |
| `AccessProofs` | what `Login`, `Impersonation`, `Bridge` and `RBAC` keep |
| `PagesProofs` | the theorems about `Pages`, from those of the pages |

Operators introduced by a comment "Fault:", whose names have an underscore, are not part of a
model: each is the definition below it with a plausible bug, and shows that a property of some run
would notice that bug (`mutants` in `PROJECT.json`).

### SessionStore

A request is a process, `req[r]`, and an action is what the code does between
two releases of `ss.mux`. `login` is `StartLogin`, `AddLookup` (the unlocked read
of `addSession`), then `AddCollision` or `AddInsert`, then `Prune`.
`authenticate` and `logout` share `GetSession` and differ in what follows:
`CheckAuthenticate` and `CheckLogout` compare the expiry, which happens after the
lock was released, `DeleteExpired` and `LogoutDelete` take it again. `byAge` is
a set of records with their position of insertion in place of a slice; both the
skipping loop of `pruneSessions` (`ExpiredLoop`) and the cut at the front
(`OldestOf`) are expressed over that order. The unlocked read races with the
writers of a Go map, which the runtime may answer by stopping the process:
`MapRaceCrash`. The sessions are in memory only, so a restarted server has none.

`randomString(128)` is drawn so that no token of an *earlier* session comes back
(128 random bytes), except the collision `addSession` tests for. The cookie is
any token: a request may carry one of a session that is gone.

### WSFactory

Each socket handler and timer callback is one action, since JavaScript runs it
to its end. `sock` holds all sockets the object has opened: a retry
(`AttemptConnects`) does not close the one before, and `destroy` (`TearDown`,
`Detached`) takes the handlers of the current one only. `attempt` distinguishes
the id of a pending timer from an id kept after its timer is gone (`destroy`
clears the timer, not the field). `reconnect` and `works` are chosen once, in
`Init`: the option of that name, and whether `new WebSocket` returns at all: it throws for an unusable URL, the same for the whole life of the object,
and `_connect` then leaves retries to the timer. `OnMessage` may happen after a
close, as the comment in the source says of some browsers. `OnClose` includes
the user's close handler, which may call `destroy` (`k8s-actions.ts:219`);
handlers registered by the user are otherwise not modelled. `send` changes
nothing here.

Messages are numbered in order of arrival. `mark` is the number of messages that
had arrived at the last `_connect`, which empties the buffer.

### K8sList, ListWatch, WatchCycle

A list maps a qualified name to the object shown for it. An object is a uid, a
resourceVersion and contents; the uid is the resourceVersion at creation, from
which `CreatedAt` derives the `creationTimestamp` in whole seconds
(`VersionsPerSecond` versions share one). The API server is external: a store, a
log of changes whose length is the resourceVersion, and pages of a snapshot fixed
by the first request.

Each mount of an unwatched list starts an asynchronous `pollAndWatch`: a *loop*.
Its actions are the stretches between two awaits: `Watch` or `PollFires` up to the
first request, `Serve` (external) and `ReceivePage` per page, then `OpenWatch`,
`SecondSocket`, `Abandon` or `Fail`. `incrementallyLoad` returning and
`pollAndWatch` resuming are two steps (`resolved`): dispatching a page renders
components synchronously, and one of them may unmount the list's last reader.
`Stop` and `WatchAgain` are the reference count of further components.

The list watch has one socket in this model (`ws`): WSFactory's orphaned sockets
are studied in `WSFactory`, and the `timeout` branch that would destroy the
object is left out since theorem `TimeoutNeverFires` shows it unreachable with
the numbers used. `lost` remembers that the full buffer dropped an event no
reconnect has replayed: `Mirror` and `EventuallyMirrors` claim nothing then. Not modelled: the API server
forgetting old resourceVersions (410 Gone), `extraAction`, filters, selectors and
impersonation subprotocols, which choose what is watched and not how.

`WatchCycle` is what `k8s-actions.ts:163-169` says; `Phase` in
`ListWatch` maps `ListWatch` to it, and the property `FollowsCycle`
states that `ListWatch` implements it.

### WSProxy

The handler (`main`) and the two copiers are sequential processes; an action is
what one does up to the next operation another goroutine can see: a receive, a
lock, a write, a close. A select takes any ready case, so `TakeError` and
`TakeTick` exclude nothing. `conn` distinguishes a connection whose peer has
`gone` (the next read fails, a write may still succeed) from one the handler
`closed` (both fail). A peer that does not read (`full`) blocks the write of a
copier, which has no deadline, and makes `Ping` fail, which has one. The deferred
calls are the stages `closeFrontend` and `closeBackend`, entered where the code
has registered them. The headers, the subprotocol that carries the impersonated
user and the check of the origin only decide between `Dial` and `DialFails`,
`Upgrade` and `UpgradeFails`. Plain HTTP requests are not modelled.

### Pages

`Pages` extends the modules of pages and forms, thirty-five pages in all. A behaviour is the life of one
of them (`page`), chosen at the start as the router does; they share no state but the
store, whose entries `ListWatch` and `K8sObject` model. Each module has its own
variables, initial predicate, next-state relation, fairness and properties, and can be
checked alone through its `...Spec`; the composition is what the runs check. A page that is
not shown stays in one fixed first state; no timer runs in it and no request is out.

`K8sObject`, `EditYAML`: `entry` is the reducer's entry of the object, `answers` what
requests have read and not yet delivered: an answer is read when the request is sent
and may arrive after any number of events. `modifyObject` ignores an object
with equal contents, error included. `LinkFlushes` is a fold of `modifyObject` over a batch,
stated by its result: the last of the events that it writes (`Writing`). The editor exists while the status box
shows it (`Frame`), so every step of the watch is composed with what it makes of the
editor (`EditorFollows`).

`Discovery`: `models` are what `getResources` found, a page watches the lists of the
models it knew when it was mounted, and a new list of models mounts it anew. The
comparison that triggers a discovery is between `undefined` and a number.

`EventStream`, `PodPages`: the socket is what `WSFactory` offers, reduced to
its link, its pause and its buffer. An event is its uid and the time it was last seen; a
line of a log is the set of streams its text came from, so that a line joined from two
containers can be told. The flush of events, throttled in the code, follows each batch;
`StoredUpTo` is the store after the first changes of a batch.

`SecretForm`: `rows` is the array of the list, `forms` the state of each row's form by
its uid (the React key), `frame` what the save would send. `auth` of a registry row
is what `updateAuth` made, `value` stands for its user name and password.

`RBAC`: the API server's object, what the page shows of it, the open dialog and the
request. A JSON patch addresses an index and names no version; a `PUT` names one.

`Namespaces`: a path is its scope, a resource and a tail; `FormatNamespaceRoute`
and `GetNamespace` are the functions of that name.

`Features`: `probe[f]` is where the detection of a flag is. A cluster is a choice of
what it refuses, whether it is OpenShift and whether it has projects, and which access
reviews it answers with yes.

`Polling`: a chain is a request, the timer its answer sets, the next request, and so on.
`queryClock` is `this.clock`; chains carry the clock they were started with. For pages loaded
late, `loads` are the promises and timers of `AsyncComponent`; a load is of the loader at the
moment it was called. `crossed` is a history variable: the loader changed during a load.

`Alerts`: a rule is the set of its labels, an alert that set and the label of its series. `polls`
holds what each page that was mounted has running: a request, an answer or a timer. `linked` is
a history variable, so that a property can compare the rule whose link was followed with the one found
by the labels of the address.

`Chargeback`: `columns` are the fields of the rows in the order of the JSON; the amounts are left
out. `orderArg` and `orderBy` are the direction of the sort in the address and in the table. `missed` is a history variable: the report finished while a fetch was in flight.

`Navigation`: a path is the sequence of its segments, `SectionLinks` the sections as
`Nav.render` lists them; `sections` is the state of each `NavSection`, of which `mounted` says
whether its flag lets it be. `urls` and `detected` are the routes `monitoring.ts` finds.

`Overview`: `workloads` are the props, `items`, `filteredItems`, `groupedItems`, `groupOptions` and
`selectedGroupLabel` the state derived from them; an object is its labels and the revisions of what it owns.

`LdapSettings`: contents of the LDAP form are told apart by the nonce `validate()` counts up.

`ChannelOperators`: `appVersions`, `channelConfig` and `release` are the server's, `seenVersions` and
`seenConfig` what the page has of them: every list is fetched on its own, and an event brings one
object (`ObjectArrives`). `Offers` is the button that `DetailStatus` shows and `DoAction` a click on
it; `outdated` disables it until new props come. The operators are external: they report versions, flags and tasks
(`VersionsChange`, `FlagsChange`, `TasksChange`). `wantedPause`, `unsure` and `futile` are history variables.

`Dialogs`: a plan is one or two requests, in sequence (`then`) or at once
(`Promise.all`), that create or delete. A request given up after 20 s may still be
carried out (`ActsOnStray`). Two dialogs one after the other are not modelled.

Scaling, in `Dialogs`: `counts` are the counts of all versions of the object, `propsVersion` the one
the page has. A patch of an unchanged count writes no version.

`Environment`: `envs` are the variables of all versions of the object. `overtaken` is a
history variable: a save was answered after a newer version had come.

`Listing`: three objects of three phases; a filter text is the set of names it matches.
`entries` and `listSorts` are what the store has per namespace, `address` the query of the
URL, `input` and `selected` what the screen shows. `textSlipped` is a history variable: a
discovery took the list and its filter down.

`Resources`: `Static` is the table of `models/index.ts` in columns; an address is a `place`,
`meant` the kinds a link was made for, so that a property can compare what was meant with
what the page's lookup finds (`ModelOf`) and watches (`Watched`).

`Bridge`: a flag or line of the file is what the checks ask of it (`flagValues`, `config`);
`phase` runs through `main` as the code does, and `sent` is the token of one proxied request.

`Impersonation`: a name to be impersonated is a sequence of characters, because subprotocols
encode it.

`SourceSecret`, `PullSecret`: each subform's state is a copy apart from its parent's. A pull
secret is how many registries it names and what the form can show of the first one.

In `RBAC` also: `ruleForm` has the two radio buttons and the two sets of boxes. The page it stands
for, `edit-rule.jsx`, has no route at this commit (`app.jsx:179` and the links at `rules.jsx:104` are
commented out, "temporarily disabled"): it is modelled as it stands, and its properties say
what it would do if it were enabled again.
`dropdown` is the role dropdown with the title it shows, apart from the binding's role.

`OperatorLifecycle`: `versions` are all versions of the object, `shownAt` the one
the page has, `answered` the one the page's last save made. `gate` is the flag, the lists
and the annotation a page waits for, of which a list is loaded whole in one step, though the code
sets `loaded` after the first page of a long one; `firehose.order` the order in which lists are given.

Rows, in `Environment`: a row is a name, a text, or a resource and a key; `drag.rows` and `drag.replaced`
are history variables. `Dropdown`: `chosen` and `offered` are the parent's, the rest is the
component's. `MonitoringSettings`: `opened` is the text as the dialog was opened with; a quantity is an
amount and one of the units that `units.js` accepts for its setting, counted in thousandths.

### Login

A browser is its cookies, `next` and its tabs; a CSRF token is named for the tab whose page brought
it. `asked[t]` counts the requests of a page that are under way, by what their answers will do: a 401 or
a 403, a logout with a path to come back to (`expelled`) or from the menu (`leaving`), a logout
given up after 20 s that may be answered all the same (`late`). What a page is told to go to (`to`)
takes effect later, in `LoginFunc` or `PageIsLeft`: until then the page lives, its requests are answered, and
each 401 among them runs `authSvc.logout(window.location.pathname)` (`Unauthorized`), in a tab that is
being logged out or expelled already, too. `logoutRedirect` is where `leaving` may go. `MaxUnderway`
bounds the requests of all tabs together. That a session has ended is seen before the CSRF token is
compared with OIDC, after it with OpenShift: a request of a session that ended meets either. Requests whose answers change nothing are left out, and so
are those that `shouldLogout` excepts.

### Account

Dex is the set of clients with a token. A request that is given up, because its dialog is dismissed
or after 20 s, is not aborted: it may have been done, is never done, or becomes one of
`strays`, which acts at any later time (`StrayRevokes`, `StrayGrants`), on whatever token the
client has by then. `withdrawn` is a history variable, the clients whose token a stray took. Only what
this page does and logins elsewhere (`GrantElsewhere`) change the tokens: a revocation by another
page, and a configuration made there, whose token replaces that of the one offered here, are not
modelled.

## Runs

| Run | Shows | Bounds |
|---|---|---|
| `session_store` | `SameSessions`, `BoundedStore`, `LoggedOutIsGone`, `StaysSignedIn` | 2 requests, 4 tokens, 2 sessions, lifetimes 0 and 1, clock to 2, symmetric tokens and requests |
| `ws_reconnect` | `InOrderOnce`, `RecentKept`, `NeverStuck`, `UserDestroys`, `FinalWithoutRetry`, `Recovers` | with and without reconnect, 2 sockets, buffer 2, 4 messages, 2 failures, delays 2 to 5, timeouts 4 and 5 |
| `ws_timeout` | *violated*: `GivesUp` | source's delays and timeout |
| `list_watch` | `Mirror`, `WatchStartsFromList`, `FollowsCycle`, `EventuallyMirrors` | 2 names in one page, 4 changes, 2 components, 1 failure, 2 closes, buffer 2 |
| `list_remount` | `NothingLeftBehind`, `SomebodyWatches` | 2 loops, 2 mounts, pages of one object |
| `list_pages` | *violated*: `WatchStartsFromList` when a list needs two pages | 2 names, pages of one |
| `list_twice` | *violated*: `NeverTwice` on a remount | 2 loops, 2 mounts |
| `proxy` | `NothingOpen`, `HolderWrites`, `NoLeak`, `EndsTogether` | 4 messages or stalls of the two peers |
| `pages` | the safety properties of the tables below, all pages | see `Pages.cfg` and below |
| `pages_live` | the liveness properties of the tables below: the thirteen pages that poll, retry or wait for an answer | as `pages`: `PagesLive.cfg` differs in `Page` only |
| `secret_auth` | *violated*: `AuthIsCurrent` | as `pages`, secrets only |
| `role_subject` | *violated*: `RemovesTheNamed` | as `pages`, roles and bindings only |

Properties of one page. `PagesAreFilled`, `ShowsTheObject` and `ShowsTheEvents` are temporal and
belong to the run `pages_live`, as do the groups `PollingStops`, `SettlesInTheEnd` and
`CurrentOrTold`; the others are checked by `pages`:

| Page | Property | What it says |
|---|---|---|
| editor | `ShowsTheObject` | the page becomes the server's object, whatever late answers overwrote |
| discovery | `PagesAreFilled` | a lost discovery does not leave pages empty for good |
| events | `ShowsTheEvents` | in the end the screen has the namespace's events, the newest among them |
| logs | `LaterLinesAreOurs` | no line but the first is another stream's |
| terminal | `TerminalIsCurrent` | a connected terminal shows this session only |
| namespaces | `PathIsActive` | the path's namespace is the store's |
| ldap | `OnlyTestedIsOffered` | only a form that passed its test can be downloaded |
| environment | `CurrentOrTold` | the page is current or says that it is not |
| bridge | `ServesAsConfigured` | the server speaks for somebody, obeys its file, lends no token to a user |
| login | `BackWhereTheyWere` | the path to come back to gives way only to the path of a page that is refused at that moment, so the last refusal wins; the tab that takes it goes there |

Properties that say one thing of several pages are conjunctions, and each conjunct stands
with its comment in the module of its page:

| Property | Conjuncts |
|---|---|
| `PollingStops` | `ChartPollsEnd` (graphs), `AlertPollsEnd` (alerts), `LoadsEnd` (loader): polls and retries end after the unmount |
| `TypeOK` | the type invariant of the module of the page that is shown: the types and bounds of its variables, that of the line buffer and of the events kept among them |
| `ScreensAreTrue` | `FilterApplied` (events), `BehindIsCounted`, `LogIsFollowed` (logs), `RowsAreTheForms` (secret), `StatusIsOfItsQuery` (graphs), `RowsAreTheAsked` (listing), `LinksAreCurrent` (subscription), `DisabledIsTrue` (operators), `DraggedIsHeld` (pairs), `MenusAreDismissed` (selector), `DetailsAreTheLinked` (alerts), `OffersAreTrue`, `UnfinishedIsShown` (updates) |
| `ListsAreTrue` | `KindsAreKept` (resources: links, addresses, watches and create forms are those of the kind meant), `OwnedAreShown` (operators), `KeysAreTheirs` (pairs), `MenuIsTrue` (selector), `SortIsShown` (report), `NavIsCurrent` (navigation), `OverviewIsTrue` (overview) |
| `SendsWhatIsShown` | `ListIsSent` (secret), `SourceIsWhatIsShown` (source), `GrantsWhatIsShown` (rule), `ShownRoleIsSent`, `BindingIsWhole` (binding) |
| `RequestsAreTheUsers` | `FetchesAreAccepted` (login: no request is refused for its CSRF token, though other tabs have replaced the cookie since the page was loaded), `ActsAsShown` (identity: requests, lists and terminals are those of the user or group the notice names) |
| `DialogsKeepTheirWord` | `DialogsAreDone` (dialog), `AccountIsTrue` (account: a token revoked by a dialog that closed as done stays away until its client gets a new one; a configuration is offered only while its token is there, or a revocation given up before took it), `UploadsParse` (pullsecret), `RequestsFit`, `UnitsAreTheirs` (monitoring) |
| `EditsAreSafe` | `TextIsSafe` (editor), `NoSecretIsLost` (source), `ChangesOneField` (subscription) |
| `ClicksDoOneThing` | `OtherRulesAreKept` (roles), `OneBoxAtATime` (rule), `PicksWhatIsShown` (selector), `OtherSettingsAreKept` (monitoring), `OnlyTitlesFold` (navigation), `LastClickWins` (updates) |
| `SettlesInTheEnd` | `ShowsTheDeletion` (editor), `ShowsItsQuery` (graphs), `FlagsAreDecided` (flags), `InProgressEnds` (dialog), `SpinnerEnds` (scaling), `StartEnds` (bridge), `AlertsAreCurrent` (alerts), `ReportIsShown` (report), `ShowsItsComponent` (loader), `ButtonComesBack` (updates) |

Why the bounds are enough: two requests are what an interleaving on one lock
needs, two sessions with three inserts reach expiry, the skipped entry and the cut
at once, and lifetimes of 0 let a session expire between its insert and its prune.
Two sockets are the smallest orphan, a buffer of 2 with 4 messages overflows and
fills again after a flush, and delays of 2, 3 and 5 have the cap and a timeout on
either side of it. Four messages and stalls let both copiers be blocked or waiting
for the mutex, in any stage of the handler, with a message left to read. Four changes fit add, modify, delete and add again of a name
with the list fetched anywhere between; two closes allow a reconnect and an abort
in one behaviour. `CHECK_DEADLOCK FALSE` is set because everything bounded may
really stop: requests end, messages run out.

In `Pages.cfg`: one answer and two versions of others let an answer be older than an
event, one fault closes the socket or loses the answer; two groups, two discoveries at
once and two failures overtake each other; two uids and a list of one message make the
limit bite, and time 2 lets an event be seen again; three log streams' worth of texts
and moves fill a buffer of 2 before and after a restart; three sessions of the
terminal are a lost, a refused and a good one; two rows and three uids let a row be
removed while its file is read; two edits and two items move an index under a dialog;
one glitch and one switch per run of the flags; two changes of a query have two old
answers in flight; three drafts and two tests answer in either order; two tries of a
two-step dialog retry what was half done; two saves and three versions have a newer
version between a save and its answer.

Two namespaces and one filter text make a list leave a filter behind and come back to it;
two late groups let a discovery miss one group and not the other, and `extensions` is a
group whose kinds have namesakes. `MaxSteps` is 2 in place of the source's 5 retries: one that
succeeds after a failure, and one that ends. One word, two writes and a file let a source
secret change under its form; one name of a pull secret is there, missing or changed once,
with two files read at once. A rule has one verb of each group, one safe and
one other resource and one that no box shows. Two namespaces with a role each and one cluster role
switch a binding's dropdown; three versions and two saves of a subscription put another's write
before or after a save; three kinds chain two owners in any order of lists. Two rows are
enough to swap, a third would only repeat a swap; one save is answered during a drag. Two items, two changes of the
parent and one bookmark give a dropdown rows that are only bookmarks. One pair of request and limit, two amounts of
which one has the unit "m" compare across units, two writes overlap two dialogs.
Two tabs share the cookies and replace each other's path, which is "/" or that of the error page; two requests
under way are a refusal that comes while another logs out, from the menu or for a refusal before, in one tab
or in two. The one client is kubectl, whose token a dialog of its own gives out; one request left
behind meets whatever the dialogs do since, one login elsewhere brings a token back, and two lists
answer in either order.
Two rules of one name and one series tell a rule from its alert; two pages of alerts mounted one
after the other and one failed poll let an answer for the first come after the second's. Four fields, in every order and
choice, have both kinds of column and a table without the default one; one of them is shown otherwise
than it is written. Two loaders, three
loads and two failures overlap an old load, a new one and a retry.
Two detectable sets of routes and three sections find routes in either order, light a link of one section and
none of another; one flag is pending, then set or not. Two workloads with one label each, of two keys, make
groups, a group of others and a new list of labels; one change of the namespace and one text
leave derived state behind. Two versions, one report of an operator or of somebody else and two
patches let a click overlap another, be overtaken by a report, or change nothing.
`pages` has about 568,000 states; `pages_live` has 136,000, those of the pages that state fairness.

The passing list runs are separated by what the source gets wrong: `Mirror` and
`WatchStartsFromList` are claimed where the list fits in one page, is mounted once
and no two objects of a name are created in the same second. The violation runs
lift the first two. Setting `VersionsPerSecond = 4`, one name and three changes in
`ListWatchPages.cfg` lifts the third: `moreRecent` compares objects with different
uids by a timestamp of one-second resolution, so an object deleted and created
again within a second stays the deleted one after a refetch, and
`WatchStartsFromList` fails.

### What the violated properties show

1. `list_pages`: `incrementallyLoad` loads the first page, and adds a page in bulk
   only when it has a continue token. The last page of a list with several is thus
   dropped, while the socket starts at the list's resourceVersion: the objects on
   it appear only when they change.
2. `list_twice`: an unmount followed by a mount within one request
   cannot be told from no unmount by looking at `REF_COUNTS`. Two loops go on: the
   second meets the socket "that should never happen", and its older answer may
   overwrite the list of the first (`Mirror` fails in the same instance).
3. `ws_timeout`: the delay is capped at 60000 ms and compared with `>` to a timeout
   of 60000 ms.
4. `secret_auth`: `updateAuth` (`create-secret.tsx:309-314`) runs before `setState` and
   encodes the user name and password of the state before the change. The `auth` of a
   registry is thus one keystroke behind what the form shows.
5. `role_subject`: "Delete Subject" removes an index. If the binding changed since the
   menu was opened, another subject loses the role than the one the dialog named.

### Violated, without a run

These definitions stand beside the properties that are checked; TLC refutes each, and the
list of hazards says what follows. `PruneDropsExpired` (`SessionStore`): the loop at
`auth/session.go:73-80` removes `byAge[i]` and increments `i`, so the entry behind is not
examined; of two neighbours that expired, one stays until a later prune, or until
`getLoginState` refuses it. `DestroyedIsFinal` (`WSFactory`): an orphaned
socket sets the state of a destroyed object. `OneWriter` (`WSProxy`): the mutex
is passed to the copier that writes to the *backend*, so that, against the comment in
`proxy.go:233`, writes to the browser are not exclusive; gorilla/websocket allows
`WriteControl` beside a write, but the handler now waits for the backend before it pings.
`AnswerClearsError`, `RefetchOnlyOnChange`, `SaysWhatItDoes`, `LinesAreOurs`,
`InputIsSent`, `FormSurvives`, `ReturnsToTheViewed`, `SelectorKnowsBest`, `OnePoll`,
`EverySpinnerEnds`, `AlwaysTold`, `NoticeIsTrue`, `TypingSurvivesSave`,
`TextIsApplied`, `LinkedIsFound`, `FinishIsNoticed`, `CellsFitHeads`,
`ComponentIsWanted`, `RequestNeverExceeds`, `LossIsAnnounced`, `LogoutIsQuiet`, `OfferedIsGood`: each in the module of its page, with the behaviour in its comment.

### What the code does that a reader may not expect

Met while modelling, part of the models or excluded by a condition of a property, and
checked by no property of its own:

- *Login*: the kubectl template gets the secret of the command line though the secret in use
  came from a file (`main.go:437`); `handleOpenShiftTokenDeletion` sets the `Authorization`
  of the request it received, not of the one it sends (`server.go:611`); the session cookie
  has the path `/api/`, so that `/auth/logout` never receives it; a request that is refused while its page is
  being logged out from the menu logs out once more, with a path: the page goes to the login in
  place of `logoutRedirect`, and another tab's path is overwritten (`LogoutIsQuiet`); a 401 of one tab that comes
  late ends a newer login of another; after a login error, the error page's own 401 makes
  "/error" the page to come back to.
- *Tokens*: a revocation that is dismissed or times out may take away the token of a configuration for
  kubectl that was set up since (`OfferedIsGood`).
- *Impersonation*: sockets of single objects (`k8s-actions.ts:107`), events and logs are not
  impersonated; impersonating somebody else while impersonating is ignored.
- *Sockets*: the CSRF token in the URL of a WSFactory is the one at its construction, so
  that a reconnect is refused after another tab has loaded a page.
- *Resources*: a kind found by discovery with the name of one in the source is linked to,
  and created as, the latter; the create form of VirtualMachine has no apiVersion; the link
  of a custom resource definition does not find a static kind that is not marked as custom.
- *Secrets*: an ssh source secret that is edited and not touched is sent as one for basic
  authentication and refused; an edit drops keys no field shows; the pull secret dialog never
  shows its alert for invalid JSON, writes `null` for an upload without a file, keeps the file
  that was read last and not the one chosen last, and takes any error of the load for a missing secret.
- *Roles*: groups are joined with ", " and split at "," (`edit-rule.jsx`), which gives " group"
  the second time; verbs and resources that no box shows are lost; a role that arrives late
  overwrites choices; a role stays in the binding when its kind or namespace changes.
- *Operators*: a refused approval puts an Error into the page, which takes it down
  (`install-plan.tsx:120-132`); the spinner of a change stays when its event comes before the
  answer; resources are hidden when a list comes before that of their owners.
- *Rows*: keys of rows are not unique after a removal (`name-value-editor.jsx:25`);
  a save answered during a drag moves another row, or takes the page down; the annotations
  dialog replaces all annotations by those of its opening (`tags.jsx:51`).
- *Alerts*: the rule of an alert that has stopped firing is "not found" (`alert.tsx:119`); of two
  rules of one name, where the labels of one are among those of the other, the first is shown for both.
- *Reports*: one that finishes while a fetch is in flight is not fetched again
  (`chargeback.tsx:184`); the cells of a row come in another order than the heads when the reducer
  is not the first column (`chargeback.tsx:196, 286`).
- *Pages loaded late*: a chunk that arrives after another kind was chosen shows the page of the
  kind before (`async.tsx:47`, used at `resource-list.tsx:44`), though a test says that the new one is
  rendered (`async.spec.tsx:98`).
- *Overview*: workloads none of which has ever had a label are not drawn at all
  (`overview.jsx:245`), and every change of the lists puts the chosen label back to the default.
- *Dropdown*: bookmarks of another tab are overwritten; a favourite that is no bookmark any
  more stays stored; the arrow keys follow another order than the one shown.
- *Monitoring*: every number other than 0 and every boolean below the top level is dropped
  on save (`cluster-monitoring.jsx:32`, whose comment says "drop non truthy non-zero values");
  a second dialog opened before the watch brings the first one's save undoes it.

## Fairness and failures

`WSFactory!FairSpec`: timers fire (`Attempt`, `Flush`), a connecting socket opens
unless it fails, a socket that reported an error is closed by the browser. Nothing
makes the server send or a socket fail, and failures are bounded: `Recovers` is
about a network that is eventually good. `ListWatch!FairSpec`: a `setTimeout`
fires, the server answers or the request fails (20 s in `coFetch`), microtasks run,
the socket connects, delivers and flushes. Mounts, unmounts, changes, failures and
closes are never forced. All are weak: an enabled timer or callback stays enabled
until it runs.

`WSProxy!FairSpec`: goroutines run and the ticker ticks (weak), `sync.Mutex` and
`select` starve nobody (strong for the two locks and for the receive from `errc`),
and a backend that stopped reading reads again. A browser may stall for ever: the
ping notices it. The last assumption is about the backend, not the code, and it is
needed: without it `EndsTogether` fails when the browser goes while a write to the
backend blocks, because that write has no deadline and the handler waits for the
mutex it holds.

`Pages!Spec`: per page, the interval fires, requests are answered or given up, sockets
connect and flush, retries fire, the watch of the page brings every version. Users,
other writers, failures and closes are never forced; failures are bounded. All weak.
`ChannelFairness`: a patch is answered or given up, a list is fetched again until it is there, and its watch
brings what changed.
`AlertsFairness`: a poll is answered and its timer fires; `ChargebackFairness`: the request is
answered and the watch brings the phase; `AsyncFairness`: a chunk is loaded or its timer fires.
`BridgeFairness`: the main goroutine runs, so that a start with a provider that never
answers ends by its number of retries. Nothing is assumed of the order of answers. The
modules without a liveness property (logs, terminal, secrets, roles, ldap, login and so on)
state no fairness. `Environment` assumes nothing of the
request that loads its choices, because its handler throws on a timeout.

## Proofs

All hold for every value of the constants that satisfies the assumptions of the
modules (types of the constants; bounds are numbers; `Request`, the items of a
menu, the columns of a report, the keys of labels, the revisions of a workload and the groups of an API
are finite; the smallest delay is at most the largest; one filter of events lets all of them through) and, of the three theorems below about a list mounted once, the hypotheses named there.

`SessionStoreProofs`: `Inv` is inductive. The properties alone are not: whether
`AddInsert` may add a token without breaking `SameSessions` or `LoggedOutIsGone`
depends on where that token can be, and `TokensInFlight` says that a token about
to be inserted is in nobody else's hands, not in the store and not logged out.
`BoundedStore` needs that `byAge` is finite, and that a request entering `prune`
pays for the session it inserted. `StaysSignedIn` needs `SessionsKnown`: a login
state looked up before the lock was released still describes the one session its
token ever had, so a late delete hits an expired session or the request's own;
and that the sessions a prune keeps behind an evicted one have places of their
own between it and the end of the slice, so there are `MaxSessions` of them
(`YoungerOnesPushOut`, an injection into an interval). Theorems:
`StoreConsistent`, `StoreBounded`, `LogoutIsFinal`, `NobodyElseSignsOut`.

`WSFactoryProofs`: `Inv` strengthens `NeverStuck` by `Alive` (a state other than
`closed` or `destroyed` has a live socket), `Armed` (a closed object has a pending
timer, and an id in `_connectionAttempt` belongs to one until destroy) and `Silent`
(nothing opens when the constructor throws). Theorems: `AlwaysRecovers`;
`TimeoutNeverFires`, for every pair of a largest delay and a timeout at least as
long; `MessagesInOrder`, from the separate invariant `Sorted`: delivered and
buffered messages are increasing, the former before the latter, and none is later
than the last received; `DestroyIsFinal`, from `OnlyOne`: without
reconnect only the current socket has handlers, and a destroyed object has no
current socket.

`ListWatchProofs`: `Inv` is `ControlTypeOK`, `NothingLeftBehind` and
`SomebodyWatches` together, for any number of loops, pages and mounts. Theorems:
`UnmountCleansUp`, `NeverAbandoned`.

Three theorems are about a list that is mounted once (`MaxWatches = 1`); without that, two
loops may be under way (finding of `list_twice`). `Single` says that one loop, one socket or
one timer is at work, and from it each step is one of `WatchCycle` or leaves the phase as it is:
`ListImplementsTheCycle`. `ListMirrorsTheServer` (`Mirror`) and `WatchContinuesTheList`
(`WatchStartsFromList`) also suppose `FitsOnAPage` (else the last page is lost, finding of
`list_pages`) and `VersionsPerSecond = 1` (else an object that replaces one of the same second is
ignored): the hypotheses of the run `list_watch`, for every number of names, changes, failures
and closes and every buffer. Their invariant is `Synced`. `At(log, o, n, k)` says what the server had under a
name after the first `k` changes, without recursion: what the last of them about that name
recorded. `History` is what the server keeps true of its log: the resourceVersion is the place, the
uids of a name grow, an ADDED follows an absence and a MODIFIED an object of that uid. The
list is compared name by name, because a replay takes it back for some names and not for others:
`Tracks(shown, log, n, k)`, for *some* `k` not before the socket's start and, if nothing
was dropped, not before the last change flushed; contents are compared and not resourceVersions,
since `updateList` keeps an old one. `ApplyOne` is the heart: an event applied to a
list that is at the change before, or anywhere later, leads to that event or leaves the list
later than it. `BatchFollows` carries it over a batch by an induction made by hand, on the set
of lengths for which it holds (`EveryNat`, from the library's well-foundedness of `<`), and `FoldExists` shows that
the recursive function of `UpdateListFromWS` exists. `LoadShows` is the merge of
a loaded page with a list that is not newer.

`WSProxyProofs`: `Inv` adds to the types `HolderWrites` and `Stages`, which says
what exists at each stage of the handler: `HolderWrites` needs that no copier runs
before the upgrade and that the unguarded one never waits for the mutex. Theorems:
`LockIsReleased`, `ClosesWhatItOpened`.

`LastMessagesAreKept` (`RecentKept`) adds to `Sorted` the invariant `Kept`: until destroy the buffer
is consecutive up to the last message received, and of those since the last `_connect` and
among the last `BufferMax` each is delivered or buffered.

The pages. Each of the modules `PageProofs`, `FormProofs` and `AccessProofs` proves, page by
page, that an invariant holds at first (`...InitInv`), is kept by every action
(`...NextInv`) and implies the page's properties. What has to be known beyond the property:

- *Namespaces* (`PathInv`): all paths ever pushed, those behind the back button included, are
  well formed, so that whichever one `SetCurrentLocation` is given names a namespace that it
  can store; the history is unbounded here. `PathAndStoreAgree`.
- *Terminal* (`ExecInv`): the property itself, with the number of sessions. `ConnectedIsCurrent`.
- *Log* (`LogInv`): while a socket is open the lines are its buffer, and the lines that
  were not seen are among the texts that came. `LogIsOneStream`.
- *Editor* (`EditInv`): every copy of the object, in the entry, in an answer that was
  delayed, in an event, in the editor and in a save, says what the server's object was at the version it
  names (`Says`), so that equal versions mean equal contents and the server's comparison of
  versions is one of texts. `TextStaysSafe`.
- *Boxes and graphs* (`ChartInv`): the chain with the clock of now has the query of now.
  *Alerts* (`AlertsInv`): every rule that can be found, in the store or in an answer still to
  come, is a rule there is, and the labels of the linked one are in the address; no rule's labels
  being among those of another (`AlertsAssumption`), what is found is the linked one. *Lists* (`ListInv`): what
  is not shown is not watched, and its filters are those of the address unless a discovery
  took them down. *Navigation* (`NavInv`), *rows* (`PairsInv`), *events* and *dropdowns* need
  little more than their properties.
- *LDAP* (`LdapInv`): the version last validated has passed, and a test that is about to succeed
  is of the version it was started with, however many are in flight. `OfferedWasTested`.
- *Monitoring* (`MonitoringInv`, `SettingsInv`): the settings on the server, those the page has
  seen, those a dialog was opened with and those in every patch in flight all obey the rule,
  because a patch takes the other settings from one version whole; `RequestsAlwaysFit`. That
  the other settings are kept needs in addition that no request is a number, which
  `sanitizeForProm` would drop.
- *Dialogs* (`DialogInv`): a request was applied or its step is done; the second step is never
  without the first. `DialogsDoTheirSteps`. *Pull secrets* (`PullInv`): `PullSecretsAreParsed`.
- *Secrets* (`SecretInv`, `SourceInv`): uids of rows are distinct and none is above the last,
  so that the row of a uid is one row, and the frame holds what its rows or subform do.
  *Subscriptions* (`SubscriptionInv`): the links are of the version shown, and what a save sends differs
  from the version it read in the field of its dialog.
- *Login* (`LoginInv`): only a page of the console has requests under way or somewhere to go, and none of
  its requests is a 403; this holds for any `MaxUnderway`.
  `NobodyIsForbidden`, `ComesBackWhereItWas`, of `Login` alone. *Tokens* (`AccountInv`): what a stray took is remembered until
  its client is given a new token. `AccountStaysTrue`. *Impersonation*: the subprotocol's encoding is undone by the server for every
  name (`DecodesTheEncoded`). *Start-up* (`BridgeInv`, with `Settled`): what each phase of
  `main` has decided follows from the merged flags.
- *Cluster updates* (`ChannelInv`): what the page has of an object is what the
  server has, unless an event of that object is on its way; a patch in flight is of a field there is; and while
  it is certain what the last click wanted, what is in flight is for it.
- *Roles* (`RbacInv`): what an edit read is the object as it was at that version. *Rule*:
  the rule saved is the form's, and a box shows what its radio button and set say (`RuleForms`).
  *Bindings* (`BindingInv`): the dropdown's own choice is the binding's role.

What goes through a list or a set needs lemmas of its own, because nothing can be proved about
`SelectSeq` and the folds of the library: an operator is a parameter of theirs. So `Selections` says in closed form what is kept of a
sequence, by the rank of the places kept, and `AmongKeeps` says that it has those
elements, and none twice if the sequence had none twice; `RankIn` is shown to number the places one by one. `SetToSeq`, a `CHOOSE`, lists a
finite set without repetition. Recursive functions are shown to exist by the least number for which
they would not (`WFMin` of the library, `PassExists` for the passes over an operator's lists,
`StoringExists` for the events of a batch). On these rest:

- *Rows* (`KeysInv`), *dropdowns* (`MenuInv`): the rows of a menu are the items and bookmarks that match, none twice.
- *Reports* (`ReportInv`): the heads are those of the last answer under the last reducer, and the
  column of the address is among them or, being a reducer, is the reducer.
- *Overview* (`OverviewInv`): items, filtered items and groups are those of the workloads and of the label
  that is shown, whichever of props and state changed last.
- *Navigation* (`CurrentInv`): the lit child of a section that is drawn is that of the path.
- *Instances of operators* (`InstanceInv`, `PassExists`): the order is of all kinds, each once, so that
  one pass over the lists shows what is owned by something shown from a list before.
- *Kinds* (`ResourceInv`): a place, a watch and a new object are of a kind that was meant. That the table
  of kinds has no two of one key, and the links of the navigation no two for one page, are the
  assumptions `KindsAreDistinct` and `LinksAreOfOnePage`: they are about the constants' tables only, and TLC
  evaluates them completely.

The types need the invariants above, and some more. A flush keeps `Newest` of what was
stored, all events no older than the least of the bound's newest: that these are not more than `MaxMessages` needs that no two events known have one
time (`OneAtATime`), which holds because each change of the cluster has a time of its own and none
known is later than the clock (`NoneToCome`), in the store, in the buffer and in the cluster
(`EventTyped`, `NewestAreFew`). The rows of a secret are never empty and have the uids drawn so far (`RowsAreGiven`);
versions that were answered exist (`SubscriptionTyped`, `SourceBounded`); what a list's page asks
for was typed (`AskedTyped`); every copy of an object has its type, whatever was late (`ObjectTyped`).

`PagesProofs` composes them: a step of the console is one of the page shown and leaves every
other page as it is (`StepsOf...`), so that `PagesInv`, `FormsInv`, `ScreensInv` and `ListsInv`, the
conjunctions of the invariants above, are inductive for `Pages!Spec`
(`EveryPageInvariant`), and with them `TypesInv`, which speaks of the page that is shown. From them: `PagesSendForTheUser` (`RequestsAreTheUsers`),
`PagesComeBack` (`BackWhereTheyWere`, an action property),
`PagesAreServedAsConfigured` (`ServesAsConfigured`),
`PagesKeepTheirWord` (`DialogsKeepTheirWord`), `PagesKeepTheirOwn`, `PagesShowTheTruth`
(`ScreensAreTrue`), `PagesListTheTruth` (`ListsAreTrue`), `PagesSendWhatIsShown` (`SendsWhatIsShown`),
`PagesKeepTheirTypes` (`TypeOK`), and, as action properties,
`PagesEditSafely` (`EditsAreSafe`) and `PagesDoOneThing` (`ClicksDoOneThing`). With them
every safety property that a passing run checks is a theorem.

Only model-checked: the liveness properties (`Recovers`, `EventuallyMirrors`, `NoLeak`, `EndsTogether` and
those of `pages_live`), which rest on fairness and ENABLED; and what the tables of kinds and links
say of each other, an evaluation.

## Not modelled

- *Other pages* (cluster overview, virtualization, the catalog
  and descriptors of operators): rendering of what the stores hold, over the same watches,
  requests and dialogs.
- *Static files, headers and certificates of the server, plain requests of the proxy*: no state
  between requests, or the standard library's.
- *Identity providers*: what they say of a user, and the contents of tokens.
- *Watches that outlive an impersonation*: `Impersonation` says whom each request and socket
  stands for at the moment it is sent; lists opened before go on as before.
- *Labels*: the label filters of lists and of the search.
- *An API server that forgets old versions* (410 Gone): the code drops the ERROR event and
  asks for the same version again, so that nothing good can be claimed.
- *Two dialogs in the shared container*: a late answer of one closes the other
  (`modal.tsx:20`); only `OperatorLifecycle` and `MonitoringSettings` have it.
- *Flags made from discovery*.
- *Alerts*: their filters and sort in the store, which `Listing` models for other lists.
- *The operators of the cluster*: they report anything that has the shape of a report.

## Plan

1. Done: the session store, the sockets, the list and object watches, discovery, the proxy,
   the login and start of the server, and thirty-five pages and forms; proofs of all safety
   properties, types included.
2. Models: two dialogs in one container, flags from discovery, watches across an impersonation,
   an API server that forgets.
