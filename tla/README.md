# A verification of AOSharedServiceLibrary

TLA+ models of the AO Shared Service Library (a C++ library of building blocks
for services: configuration, service discovery, secrets), the TLC runs that
check them, and TLAPS proofs of the results that matter most. Paths are relative
to the repository, `kv_store.h` being `aossl/core/include/kv_store.h` and so on.

## 1. The system

An application builds a `TieredApplicationProfile`. Its constructor works out
which properties file, which Vault and which Consul to use (`init`); the
application adds the options it wants (`add_opt`, `add_secure_opt`) and calls
`load_config`, which fills a shared map from all the sources; then its threads
read and write options, look up other services through Consul and ask Vault for
secrets, concurrently, through the one profile.

```
 TieredApplicationProfile   init, load_config, add/get/set_opt
   | is a
 NetworkApplicationProfile  get_service, get_service_by_metadata, register, ...
   | is a
 ApplicationProfile ------- owns ---> ConsulAdmin ---> BaseHttpClient ---> Consul agent
   | is a       \---------- owns ---> VaultAdmin ----> BaseHttpClient ---> Vault server
   |             \--------- owns ---> CommandLineInterpreter, PropertiesReader (KeyValueStores)
 SafeApplicationProfile
   | is a
 KeyValueStore              one std::unordered_map under one Poco::RWLock
```

The calls go downwards only; there are no callbacks. Threads meet in four places:
the map of a `KeyValueStore`, the login of a `VaultAdmin` and the token fields of
its `BaseHttpClient`, the round robin index of `NetworkApplicationProfile`, and the
pointers to the sources in `ApplicationProfile`. They also meet at the Consul agent,
whose registry one thread changes while another looks services up. Nothing is persisted, so there is
no recovery to model; what fails is the Consul agent, the Vault server, or the
network in front of them.

### Inventory

| Component | State | Operations | What is hard | What makes it correct |
|---|---|---|---|---|
| Key-value store (`kv_store.h`) | `opts`, `rw_mutex` | `opt_exist`, `get_opt`, `get_opts`, `set_opt`, `add_opt` | `get_opt` inserts under a shared lock, `add_opt` takes none; check-then-read in two sections | no race on the map, atomic calls, keys that were seen stay, no deadlock |
| Vault client (`vault_admin.h`) | `is_authenticated`, credentials | `opt_exist`, `get_opt`, `gen_ssl_cert`, `gen_consul_token` | several first callers, a login that fails after the flag is up, spinning threads | one login, no hanging caller, no token lost |
| HTTP client (`base_http_client.h`) | `use_acl`, `acl_token`, `acl_token_name`, certificates | `create_and_send_request`, `set_acl_token` | unsynchronised token, error paths, success flag, lost answers | a request has the whole token or none; true means done |
| Tiered profile, `init` | clients, `cluster_name` | constructor | eleven options in three sources, two files, seven stages overwriting each other | the best source wins, credentials stay with their server |
| Tiered profile, `load_config` | the map, `secure_opt_keys`, `config_record` | `load_config`, `add_opt`, `add_secure_opt` | readers and writers during a load, failures in the middle, order of sources | documented priority at the end, nothing odd on the way |
| Network profile (`network_app_profile.h`) | `last_returned_index` | `get_service`, `get_service_by_metadata` | one index for all threads and services, read and written in different steps; a list that is stale while it is walked; three ways out | an instance that matches, no hang, an index in range, rotation, nothing lost |
| Application profile (`app_profile.h`) | the owned sources | constructors, `set_consul_address`, `set_vault_address`, `set_property_file`, destructor | sources deleted while in use, constructions that throw | a source outlives its users and is deleted once |
| Consul client (`consul_admin.cpp`) | none of its own | registry, configuration values, queries: one HTTP request per call; base64 decoding | answers lost or wrong, requests that arrive late, two threads on one service | true means done once, during the call; decoder inverts the encoding |
| Service description (`service.cpp`) | plain fields | accessors, `to_json` | nothing is escaped, the port is printed bare | the agent never takes what is no JSON |
| Command line interpreter (`cli.cpp`) | a key-value store | constructors parse | first of two equal keys wins; flags | documented syntax |
| Properties reader (`properties_reader.h`) | a key-value store | constructor parses | last of two equal keys wins; comments; the file is read once | documented syntax |
| Buffers (`buffers.h`) | `success`, `val`, `err_msg` | - | `success` is not initialised, `val` survives a failure | written by every path that returns |
| UUID generator (`uuid_admin.cpp`) | none | `generate` | - | - |

## 2. The modules

| Module | What it is |
|---|---|
| `ConfigMap` | abstract specification: a map on which every call takes effect at one instant |
| `KeyValueStore` | the store: lock, map, callers |
| `KeyValueStore_proofs` | its theorems, and that it implements `ConfigMap` |
| `VaultSession` | abstract specification: a session that is opened once, and requests that show it |
| `VaultAdmin`, `VaultAdmin_proofs` | the Vault client on top of the HTTP client, and that it implements `VaultSession` |
| `TieredLoad`, `TieredLoad_proofs` | `load_config` over a store with atomic calls, and other threads' `set_opt` |
| `ServiceDiscovery`, `ServiceDiscovery_proofs` | `get_service` and `get_service_by_metadata` |
| `ProfileInit`, `ProfileInit_proofs` | `init` |
| `ProfileSources`, `ProfileSources_proofs` | the lifetimes of the profile's sources, and the two parsers |
| `RemoteMap` | abstract specification: a map behind a network |
| `ConsulClient` | the requests to Consul |
| `ServiceRegistry` | `ConsulClient` and `ServiceDiscovery` at one agent |
| `ServiceRegistry_proofs` | the theorems of both, and that the client implements `RemoteMap` |
| `Base64`, `Base64_proofs` | the decoder of Consul's values |
| `MC*` | the instances of each for TLC |

`ServiceRegistry` composes two specifications, a step of one at a time: `ServiceDiscovery` gets
its lists from the agent of `ConsulClient`. The rest of the composition is by refinement: `TieredLoad` takes every `set_opt` for one step and
every look-up of the command line, the properties file and the profile's map for
a read of a set or a function. `KeyValueStore` justifies that by implementing
`ConfigMap` when it is used as documented, and a load uses it so: it runs in one
thread, reads keys it has just seen with `opt_exist`, and adds none.

### KeyValueStore

A call has up to four steps. It is made (`Call*`, pc `"want"`), gets the lock
(`AcquireRead`, `AcquireWrite`, pc `"in"`: the constructor of
`ScopedReadRWLock`/`ScopedWriteRWLock`), has its effect on the map (`OptExist`,
`GetOpt`, `GetOpts`, `SetOpt`, pc `"out"`) and gives the lock back (`Release`:
the destructor). `AddOpt` takes no lock, so `CallAdd` goes to `"in"` directly.
An access to an `unordered_map` takes time, and a thread is inside the map as long
as its pc is `"in"`. Two threads inside, one of which changes the map, are a
`Conflict`; what it does is undefined, which the model shows as an update that may
be lost (`Commit`). `known` is history: the keys a thread has been shown.

`Spec` states the documented use: `Owner` adds the options, then starts the workers
(`Serve`), and a thread gets options it knows.

### VaultAdmin

The four operations share the text of `vault_admin.h:110-118` and differ in how
they read the answer (`Parse`). `Elect` and `Follow` are the two outcomes of the
compare-and-swap; `Login*` the outcomes of `authenticate`; `Install` the end of
`set_acl_token`, which makes three assignments (while a thread is at `"install"`
another may read any mixture of them: `use_acl` is written last, but nothing orders the accesses of
two threads, so a C++ data race allows more than the order of the program does); `Pass` the end of the wait loop; `Send` the
building of a request; `Fail` and `Answer` its outcomes. A body with a member
missing, where the code does not ask for it first, or of another type fails a RapidJSON assertion, which ends the process (`Abort`; the build
files do not define `NDEBUG`). A success flag nobody wrote is the result
`"unset"`. A request without the token is refused by the server; one with it may
be refused too, which stands for expiry and revocation.

`Session` maps this to `VaultSession`. The session is open when the token is stored, refused when the
login has failed, and otherwise being opened from the compare-and-swap on. Its opener is the thread
between its compare-and-swap and the end of its login; a request shows the session if it
carries the whole token. `Elect` is `Open`, `Install` is `Grant`, `LoginRefused` and `LoginIgnored`
are the two ways of `Refuse`, `LoginPartial` and a failed assertion in `Parse` are `Stop`; `Follow`,
`LoginAccepted` and `Pass` are stutters.

### TieredLoad

One action per source (`LoadProps`, `LoadConsul`, `LoadEnvironment`, `LoadCli`,
`LoadSecret`), each for one key, in the order of `load_config`; keys in any order,
the iteration order of an `unordered_map` being unspecified. `Throw` is a JSON
parse failure or a Vault login failure on its way out of `load_config`, `Abort` a
RapidJSON assertion. A value is the name of its source. The contents of the
command line, environment and file are chosen in `Init`; Consul and Vault answer
as they like each time. `LoadSecret` reads the flag that `get_vault_secret`
(lines 96-101) does not set: either outcome is possible. `base`, `ahead`, `said` and `secret` are
history: what the application last left under a key, which sources had their turn for it since, and what
Consul and Vault said.

### ServiceDiscovery

`FetchServices` is the fetch of the list, `Visit` an iteration of the loop, `Stop` the
test of line 66 coming out true, `Break` the assignment of the index and the
return, `EndOfList` the end of the loop. The test and the assignment are separate
steps, because the index is atomic but the pair is not. `at` is the iterator of the range-for in line 62, `index` the
counter beside it. An entry that is no object or names its service by no string fails an assertion of RapidJSON;
one that matches and lacks its address, port or id is undefined behaviour, and may fail one too (`Fatal`,
`Abort`): the process ends for all threads. Positions count from 0. A call ends in a
`result`: a position, or how it failed. `heap` is what the call has allocated and not deleted:
the service, which its caller owns from then on, and the buffer with the list.

### ProfileInit

The stages of `init` in order. A variable says where a value came from:
`vault.cert = "cli"` is the certificate the command line gave. `has` changes, since
`get_opt` of a missing key inserts it (the same effect as in `KeyValueStore`).
`"address"` is the token taken from `env_consul_value` in line 544. `ConsulFrom`
serves for the command line and the file, whose branches are equal up to the store
they read; the environment has branches of its own.

### ProfileSources

An object is its kind and a number; `live` are those that exist, `ptr` the four pointers of
`ApplicationProfile`. `Set` is one of the `set_` functions up to the construction of the new
object, with the deletion and the pointer's reset before it; then come the lines or arguments one
by one (`ParseLine`, `ParseArg`) and the assignment (`Constructed`), or an exception (`Throws`).
The owner thread alone sets and loads; `Quiet` is the documented discipline (`use.txt:91-96`) that no
other thread is inside a source meanwhile. `held` is the client a thread is inside.
`load_config` is here only the order in which it holds the sources; `TieredLoad` has the rest.
A text is a key with a value, or without (`NoEq`); keys in `Comments` begin with `//`. A profile may
be built without a command line, from `argv`, of which the first is skipped, or from a vector, of
which it is not (`cli.h:64`). `get_service` without a Consul dereferences a null pointer (`"crashed"`).

### ConsulClient and RemoteMap

Every operation of `ConsulAdmin` is one request: a key, what is to be there afterwards (`None` to
delete, `Keep` to read), and a buffer. `Call` is the entry of `create_and_send_request`, which lowers
the buffer's flag; `Serve` and `Refuse` are the agent, `Receive` is `get_http_response`, `GiveUp` the
catch clauses. The agent may serve a request and yet answer with an error (`ok` is free), the answer
may be lost, and a request that was given up may be served later (`late`, `ServeLate`) or never.
The eight queries (`consul_admin.cpp:116-135` on the agent, `160-208` on the catalogue) differ in their URL and
what they are about; the operation `report` is all of them, each with a key of its own that nobody writes. `to_json` is whether its
outcome is JSON. `RemoteMap` is what callers may rely on, with the agent's map as its state: a call
has its effect at one instant between start and end if it succeeds, and at most once, perhaps later,
if it fails.

### ServiceRegistry

Some threads register and deregister, others look services up; `Fetch` is `FetchServices` of
`ServiceDiscovery` with the list the agent then holds, in any order, or with an answer that is no list. What this agent lists
is complete (`Complete`), so `Abort` has no place here. The other three variables are
history: `settled` is what the calls that have returned entitle everyone to believe of a service,
or `Unsure`; `alone` are the calls that no other request for the same service has overlapped; and
`sure` is what has been settled all through a looker's call.

### Base64

The loop of `base64_decode_by_reference`, a character at a time (`Collect`, `Group`), its end (`EndOfInput`),
and the last group (`Rest`). `in_len--` in the test also counts when the test fails, so the count ends one lower
than what is left. A character is its position in the alphabet; `unsigned char` arithmetic is modulo
256, and the position of a character that is not in the alphabet is `npos` cut to a char. `Encoded` is
the encoding as Consul does it, `Tails` what may stand behind it: padding, an end without padding,
and a stray character.

## 3. What is checked

Every run finishes in about three minutes or less with two workers. The project keeps to a
dozen runs, one per question, so that all of it can be checked again in minutes. A run
that ends in a violation shows where the code disagrees with what the repository says of it.

| Run | Question and answer |
|---|---|
| `kv_shared` | Is the store safe when used as documented? Yes: no race, no key lost, the inductive invariant of the proofs holds, it implements `ConfigMap`, and somebody always completes. |
| `vault_shared` | One login, whole tokens for calls that follow it, none after a failed login; every call ends, also after the authenticating thread threw. The client implements `VaultSession`. |
| `vault_login_race` | Do threads "Wait for the authenticating thread to complete" (`vault_admin.h:115`)? No: the flag they wait for is up before the login begins, and their requests go out meanwhile. |
| `load_priority` | Does a load end with the value of the best source, in the code's order, whatever fails and whoever writes? Yes, for every key; and on the way at most one key is between two values. |
| `load_secure_order` | Do secure options come from the environment, else the file, else Vault, as documented? No: the flag is uninitialised, and a secret may be dropped; one that is not dropped is stored over the others. |
| `discovery_threads` | Do threads that share the index get instances that match, with no hang, whatever the lists hold? Yes, or the process ends on an entry that cannot be read; the index stays in range, and nothing is lost but the list of a look-up that finds nothing (`network_app_profile.h:124`). |
| `discovery_round` | Does the round robin rotate? No: the position of an instance found is passed before it is returned, and the same one comes back. |
| `init_sources` | For every combination of options: no source's credentials go to another one's server, and a login is whole; the best source names the Consul and the file; a generated token is used with the command line's and the file's Consul. |
| `profile_sources` | Used as documented, is a source ever used after it was deleted, lost, or deleted twice? No, also when a construction throws; except that the destructor forgets the Vault client. Do the parsers keep to their order of preference? Yes: first argument, last line. |
| `service_registry` | What may a service believe of the registry? What the last call that returned true said, if nothing else is or may still be under way for the same service; look-ups agree with it. Is a request done at most once, and during the call if it succeeds? Yes. |
| `base64_values` | Does the decoder return the value that was stored, for each length and each end? Yes. Do its index and its count of characters agree? Yes, up to the last test. |
| `init_credentials` | Are credentials used as they were given? No: without a certificate the login of the credential files is replaced by the source's own, or by an empty one (`tiered_app_profile.h:239`). |

More of the same kind was met while modelling. The models show it (it is what their
actions do), but no run is spent on it:

- `get_opt` evaluates `opts[key]`, which inserts a missing key, under a lock it shares with other
  readers (`kv_store.h:69`). `Client` lets a thread get only options it knows; with
  `CallGet(t, Keys)` in `Client` for `CallGet(t, known[t])` TLC finds the race at once. `cli.txt:33` says "The
  Command Line Interpreter is threadsafe".
- While a thread logs in, others read `use_acl`, `acl_token_name` and `acl_token` without a lock as they are written
  (`base_http_client.h:91`, `161-163`): a data race, where `vault.txt:38` says "The Vault Interface is
  threadsafe, and one instance can be shared across threads." In `VaultAdmin` it is what may be `"torn"`.
- `consul.txt:49` says that the Consul Admin "has a mutex on the HTTP Send function, so only one value can be
  retrieved at a time". There is none: `ConsulClient` lets every thread have a request under way.
- `env_consul_value`, the address, is passed for the environment's ACL token (`tiered_app_profile.h:544`),
  and without a certificate the token is dropped (line 566), where `use.txt:48-49` calls both optional. It is the second
  half of `CredentialsAsGiven`; the run stops at the first half, and with that conjunct left out at this one.
- An entry of the agent's list without a port, address or id, or one that is no object, ends the process
  (`network_app_profile.h:76`, `79`, `110-112`).
- `register_service` that returned true may still be undone by an earlier request that was given up,
  and arrives late. TLC found it: it is why a call has to be `alone` to settle anything, and why a
  service that retries should read the registry back.
- `load_config` of the properties reader and the interpreter do nothing, where `kv_store_interface.h:50`
  says "Re-load configuration" and `tiered_app_profile.h:620` "Update the configuration for the properties file
  reader". A file is read again only by `set_property_file`. `ProfileSources` has no variable for the file on disk: no
  step of the code reads it but `Build`, which takes any content, so that it could change nothing that is
  parsed, and a property about it would hold by construction.
- The destructor of `ApplicationProfile` does not delete the Vault client (`app_profile.h:104`).
- The constructor from a vector parses the program's name too (`cli.h:64`), and reads `args[0]` of
  an empty one (line 63).
- The parameter `port` of `get_consul_interface` is the timeout of `ConsulAdmin`
  (`factory_consul.h:58`), and the timeout itself is used by nothing.
- `healthy_services` asks for the service `web`, with a path that does not begin with a slash
  (`consul_admin.cpp:131`).
- `current_obj_tags` is never filled (`network_app_profile.h:72`): a service that was looked up
  has no tags.
- `add_opt` takes no lock (`kv_store.h:79`), so an option must not be added while other
  threads run: `SetUpAlone` is what the race freedom of the store rests on.
- A reload stores the file's value over the command line's and replaces it three steps
  later (`tiered_app_profile.h:631`), so other threads may see a value of the wrong
  priority meanwhile, and for good if Consul's answer throws: `OneKeyInBetween` bounds it
  to one key.
- A secret that is stored goes over every other source (`tiered_app_profile.h:643`), although the comment at
  lines 648-651 lists Vault third. It violates `SecureOrder` also when the flag happens to be true.
- The Vault of the properties file replaces the command line's (line 476), and the
  environment's cluster the command line's (line 593).
- The success flag of the certificate found in Vault is never set (line 491), so it is used by
  no branch: `vcert` stays `FALSE`.
- With a role for the Consul token and no Vault, a null pointer is dereferenced (line 518):
  the stage `"crashed"`.

### Properties worth a comment

- `OneKeyInBetween` (TieredLoad): in a load, and after one that threw, every key
  but one is as it was or has its final value. It fails as soon as the sources
  are loaded one after the other for all keys in place of key by key.
- `AnswersMatch` (ServiceDiscovery): the index is a hint. However stale the value a
  thread acts on, what it returns matches, and it throws only if nothing does.
- `FailedLoginIsFinal` (VaultAdmin): what the code does, and not something its
  users will like: a client whose first login failed never sends a token again.
- `OneSession` (VaultAdmin): the order of things for all threads together. A second login, a request
  that hides a token already stored or shows one after a refusal, an answer to a request without it, or a second
  thread logging in beside the first is no step of `VaultSession`. It admits that a request leaves
  without the token while the login is under way, which the code does, against its own comment
  (`WaitsForLogin`).
- `LoadedValues` (TieredLoad): an equation for every key, with no exemption: which sources had their turn for the
  key since the application last wrote it decides what it must hold, secrets included. The order among
  them is the code's; `SecureOrder` is the documented one.
- `CredentialsStay` (ProfileInit): relates the parts of a client; most wrong branches of
  `init` would break it. A token is the source's or Vault's, a login the source's, or with a certificate the
  files'. The two places where `init` does otherwise are `CredentialsAsGiven`.
- `HeapAtReturn` (ServiceDiscovery), `Owned` (ProfileSources): each says what is deleted on every way out, and
  names the one thing the code loses (`network_app_profile.h:124`, `app_profile.h:104`), so that losing anything else,
  or deleting it twice, breaks it. The two leaks themselves are recorded, not caught.
- `SettledHolds` (ServiceRegistry): what a sequence of calls by several threads adds up to, and
  not what one of them does. `LookupsAgree` says it of the list a look-up walks: stale as it may be,
  it is never older than the call. Both are silent about a service for which calls have overlapped or one that was
  given up may still arrive: what the agent holds then is anybody's guess.
- `RemoteCalls` (ConsulClient): a refinement. A success that is not backed by an effect breaks it (a refusal of a
  description that is no JSON, for one), and so does a success with a value left over from another request. After a
  failure the earlier value may still be in the buffer: `RemoteMap` admits it, the flag being lowered.
- `HeldAreLive`, `Owned` (ProfileSources): each `set_` function deletes, resets, builds and assigns;
  any other order or any step left out breaks one of the two on the path on which the
  construction throws.
- `Decoded` (Base64): an inverse, not a restatement: the reference is the encoder.

### Bounds

| Run | Bounds | Why they are enough |
|---|---|---|
| `kv_*` | 2 threads, 2 options, 2 values | a race has two parties; a torn copy needs two keys; an update is seen with two values. Number of calls unbounded. The proofs cover the rest. |
| `vault_shared` | 3 threads, all operations | one that logs in, one that comes during the login, one after it. Calls unbounded; no symmetry, as it is unsound for liveness. The proofs cover the rest of safety. |
| `vault_login_race` | 2 threads, `get_opt` | one logs in, the other does not wait. |
| `load_priority` | a plain and a secure key, at most 2 loads (`MaxLoads`), at most 1 write (`MaxWrites`), every subset of keys in every source | the load handles keys independently, but for the order; the second load starts from any outcome of the first. |
| `load_secure_order` | one secure key, one load | the order is one key's. |
| `discovery_threads` | 2 threads, 2 queries, lists of 3 instances that match one or both queries, two lists with an entry that cannot be read, an empty one (`AllDocs`) | with three instances the one found can be before, at and behind the index; two queries differ in what they match. Calls unbounded. The proofs cover the rest. |
| `init_sources` | three kinds of inputs (`AllChoices`): all 2^5 sets of Vault options in each source; all sets of the options for Consul, the role and the file in each source that reads them, with and without a Vault; the cluster in any source. Files and default file present or not | the Vault stages read no Consul option; the Consul stages read of Vault only whether there is one, and what it answers, which is free; the cluster depends on nothing else. The role is not read from the file, and a file does not name a file. |
| `init_credentials` | a Vault named by the command line, a Consul by the environment (`Credentials`) | each disagreement is within one source. |
| `profile_sources` | the owner and 2 other threads; 2 objects of each kind (`MaxObjects`); up to 3 arguments of one name, 2 lines of two names, one of them a comment | an object replaced by another and used by a third thread; three arguments tell first from last and middle. |
| `service_registry` | 2 threads, 1 service with two descriptions (one without a port), 1 configuration value, 1 request given up at a time (`Slots`), 1 looker; no `Reports` | a late request needs one that is given up and one that is tried next; services are independent; a report is a configuration value that nobody writes. Calls unbounded. The two threads are symmetric, which is sound as all the properties are about safety. The proofs cover the rest. |
| `base64_values` | messages of up to 5 bytes out of 4 that have no bit, all bits and alternating bits | every length of the last group, behind a full group. The proofs cover the rest. |

`CHECK_DEADLOCK FALSE` is set where the program may stop: after an assertion
failure (Vault, load, look-ups), at the end of `init` and of the decoder, and when the profile
is destroyed or its process has crashed.

### Fairness

Weak fairness of the steps inside a call, per thread in `KeyValueStore`, `VaultAdmin`
and `ServiceDiscovery`, of the one loading thread in `TieredLoad`: a thread is
scheduled, and an HTTP request ends in an answer or an error (Poco's session has a
timeout of its own; `set_timeout` has no effect on it). No thread is obliged to make
a call. For the lock only its progress is assumed, not that it is fair to a
particular thread: `Poco::RWLock` does not promise that, so the liveness property of the
store is that some call completes, not that each does. `ProfileInit`, `ProfileSources`, `ConsulClient`, `ServiceRegistry` and `Base64` have
no fairness and no liveness property; that a call to Consul ends is Poco's promise and not this code's, and the decoder, a loop over a string, ends
with it.

## 4. What is proved

For every value of the constants, subject to the named assumptions of the modules only:
`KvAssumption` (`Owner` is a thread, the empty string is a value, `None` is neither a value, an option
nor a thread), `VaultAssumption` (the operations are among the four there are), `LoadAssumption`
(secure options are options), `InitAssumption` and `ClientAssumption` (`None`, `Keep`, `Garbled` and
`NoRequest` are none of the values they stand beside; a key is a service's or a configuration key's),
`DiscoveryAssumption` and `MessagesAssumption` (lists are lists), `RegistryAssumption` (a finite set of
services), `SourcesAssumption` (the owner is none of the other threads, comments are keys,
texts and files are sequences of what they are made of, and a missing value is no value). Every
theorem below is `Spec => []P` for the property or invariant `P` it names, `Spec => P` for a refinement, or a
fact about single steps (the last paragraph of this section).

**KeyValueStore_proofs**

| Theorem | Statement |
|---|---|
| `Invariance` | `Spec => []IInv` |
| `TypeCorrect` | `Spec => []TypeOK` |
| `RaceFreedom` | `Spec => []NoDataRace` |
| `KnownStaysPresent` | `Spec => []KnownPresent` |
| `Implementation` | `Spec => AtomicMap`: every behaviour is one of `ConfigMap`, `pend` being the calls that have had no effect yet |

`NoDataRace` is not inductive: it says nothing about who holds the lock, or why an
`add_opt` without a lock is alone. `IInv` adds `LockDiscipline` (the lock is held by
exactly the threads inside calls that take it), `SetUpAlone` (before the workers
start only the owner runs, and `add_opt` runs only then), `GetsAreKnown` (a `get_opt`
under way asks for a known key) and `KnownPresent` (which is there, so the `get_opt`
changes nothing). These lean on each other: without a race no update is lost, hence
known keys stay, hence the shared lock is enough for `get_opt`, hence no race.
`Implementation` follows step by step: a call maps to a call, the lock's steps to
stuttering, the effect to the abstract operation, where `NoRival` (no update is lost)
is what makes the two agree.

**VaultAdmin_proofs**

| Theorem | Statement |
|---|---|
| `Invariance` | `Spec => []IInv` |
| `TypeCorrect` | `Spec => []TypeOK` |
| `OneLogin` | `Spec => []SingleLogin` |
| `TokenIsKept` | `Spec => []TokenSticks` |
| `FailureIsFinal` | `Spec => []FailedLoginIsFinal` |
| `Refinement` | `Spec => OneSession`: every behaviour is one of `VaultSession` |

The invariant is about the thread that logs in. `LoginState`: logins number 1 or 0 as
the flag is up or down, whoever is past the compare-and-swap found or put it up, one
thread at most is between its compare-and-swap and the end of its login, and until that
end no token is stored and no failure known. `SentState`: nothing has been sent with a
token before one is stored or being stored, and nothing at all after a failure. `Refinement` rests on
both: a thread is the only opener because only one is between its compare-and-swap and the end of its login, and
`Send` shows or hides the session as it should because a token stored excludes a failure and a login under way.

**TieredLoad_proofs**: `Invariance`, `TypeCorrect`, `LoadsAreComplete` (`LoadedValues`),
`LoadsGoKeyByKey` (`OneKeyInBetween`). `LoadedValues` speaks of the end of a load only. `LInv` says of
each key what it holds before its turn (`Pending`: what it held, or what the application wrote), at each
stage of its turn (`InTurn`) and after it (`Final`). The order `LoadedValues` is about is the code's, with a secret
that is stored first; the documented one does not hold. `OneKeyInBetween` would not be inductive
either: it must know that the key in hand is the one that differs.

**ServiceDiscovery_proofs**: `Invariance`, `TypeCorrect`, `AnswersAreRight` (`AnswersMatch`),
`NoOtherLeak` (`HeapAtReturn`), `IndexStaysInRange` (`IndexInRange`). `DInv` is the loop's
invariant: the counter is the iterator's position, what was passed without a match has none, and who leaves early has an instance and
another one ahead. No part of it mentions the shared index, which is the reason why the races on it
do no harm.

**ProfileInit_proofs**: `Invariance`, `TypeCorrect`, `CredentialsAreKept` (`CredentialsStay`),
`BestSourceWins` (`BestSource`), `GeneratedTokenIsSent` (`GeneratedTokenWins`). The
properties speak of the end of `init`; `PInv` says after every stage which source is the best of
those asked so far.

**ProfileSources_proofs**: `Invariance`, `TypeCorrect`, `Ownership` (`Owned`), `NoUseAfterDelete`
(`HeldAreLive`), `ParsedRight` (`ParsedAsWritten`). `Owned` and `HeldAreLive` are not inductive: neither says
that while an object is built its pointer is null (`Building`, without which the assignment could
lose another one), nor that a thread is inside nothing but what a pointer of the profile points to, and
inside nothing at all during a construction or after the destruction (`Holding`, which is what
`Quiet` gives). `ParsedAsWritten` speaks of a parse that is done; `ParsedSoFar` says the same of a prefix, `CliUpTo(n)` and
`PropsUpTo(n)`, and that the texts still to come are the rest (`Left`), so that no recursion over the text is needed.

**ServiceRegistry_proofs, ConsulClient**: `Invariance`, `Refinement` (`RemoteCalls`).
`IInv` ties the stage of a call to its request, reply and flag: without it a reply could be of a call that
is over. `Serve` maps to `TakeEffect`, `Receive` to `Succeed` or `Fail`, `GiveUp` to `Fail`, `Refuse` to a
stutter.

**ServiceRegistry_proofs, the registry**: `RegistryRefinement` (`RemoteCalls` for the composition), `Settled`
(`SettledHolds`), `RegistryInvariance`, `RegistryTypes` (`RegistryTypeOK`), `LookupsAreRight` (`LookupsAgree`). `SInv` adds that what is settled is not in doubt,
and that a call that has been alone still is and its effect still there. `LInv` adds that a looker is
sure only of what is settled now and that the list it walks agrees with what it is sure of. The
invariant of `ServiceDiscovery` comes from its own proofs, instantiated, with
`DiscoveryAssumption` discharged by the lemma `DiscoveryAssumed`.

**Base64_proofs**: `Invariance`, `TypeCorrect`, `DecodesWhatWasEncoded` (`Decoded`). `LoopInv`, which the run checks
too, is the loop invariant: the count of characters left and the index add up to the length, and what has been
decoded is the beginning of the value. The arithmetic is in the lemmas, one per byte of a group, which say that the shifts and
masks undo those of the encoding.

**Progress.** Liveness is out of the proof system's reach, but most of what it rests on is not. For
every value of the constants the proofs show of single steps:

| Theorem | Statement |
|---|---|
| `KeyValueStore_proofs!LockNeverStuck` | if a thread waits for the lock, it can have it or another thread holds it and can go on (`NoDeadlock`); and calls go through their stages in order |
| `VaultAdmin_proofs!CallsAdvance` | `is_authenticated` never falls, no thread is in the wait loop while it is down, and every step of a call leaves it fewer than before |
| `TieredLoad_proofs!LoadsAdvance` | a load comes closer to its end with every step of its own, is not thrown back by `set_opt`, and has a next step until it ends (`HasWork`) |
| `ServiceDiscovery_proofs!LookupsAdvance` | a look-up with its list ends after at most two steps more than the list is long, whatever becomes of the shared index (`HasStep`), if the process does not end first |

What is missing to `CallsEnd`, `LookupsEnd`, `LoadEnds` and `SomeoneCompletes` is that fairness makes the steps happen.

**Model-checked only.** The liveness properties themselves: `SomeoneCompletes`, `CallsEnd`, `LookupsEnd` and
`LoadEnds`. They need reasoning about fairness and `ENABLED`, which the proof system does not do.
Every other property of a passing run is a theorem.

## 5. What is not modelled, and why

- TLS, certificates' contents, DNS: they pass data through to Poco. An answer whose body is cut off
  after its header would count as a success with part of a value; Poco's stream does not tell.
- Accessors of plain fields: the service description, the names of the profile, the buffers.
- The UUID generator: one call of a library function, no state.
- `config_record`: log texts in a vector without a lock, which the loading thread writes and
  `get_config_record` copies. Nothing says when it may be called.
- The prefixes that the tiered profile puts in front of keys: a key stands for the
  prefixed one throughout.
- Sources set or deleted while other threads use them: `use.txt:91-96` asks for the contrary, and
  `ProfileSources` assumes it (`Quiet`). Without it `HeldAreLive` fails in four steps: a Consul client is set and built, a
  look-up enters it, it is set again.

## 6. Plan

The project stands at what can be modelled faithfully of the library's control, one question per run.
What remains, should the code grow into it:

1. **Buffers**: the contract "success is written by every path" for the operations of `VaultAdmin`,
   which would take over the result `"unset"` and the free choice in `LoadSecret`.
2. Lemmas in common: what a step of one thread does to a function of threads is proved again
   in each module, in the words of that module.
