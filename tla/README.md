# A TLA+ model of pade

pade gives a command the credentials it needs for one run.  A *consumer*
(`pade plan`, `pade exec`) reads a manifest of capabilities and a bindings file
that says which provider fulfils each; it resolves them, starts the command
with the credentials in its environment, redacts its output and discards what
it resolved.  One provider, `broker`, asks a remote *broker* (`pade-broker`),
which verifies the workload's identity token against the keys of trusted
issuers, authorizes the capability by a policy file, resolves it with its own
bindings, and answers.  The modules here model that program at the level of its
state changes, guards and error paths; `PROJECT.json` maps each definition to
the lines it models.

## Inventory

| component | state | operations | what is hard | correct when |
|---|---|---|---|---|
| JWKS verifier `broker/verify.go` | key set and its time, time of the last forced fetch, two mutexes | `Verify`, `ensureKeys`, `refreshKeys`, `refreshForKid`, `fetchKeys`, `parseJWKS` | concurrent calls, an endpoint that rotates keys, fails or hangs, times read before a wait, documents that repeat a kid | a withdrawn key is refused after TTL + one exchange; a rotated key is seen; key sets never go back; a kid names one key; fetches are limited; calls return |
| issuers and policy `broker/policy.go`, `verifier_set.go`, `claims.go` | the policy file, the verifiers by issuer | `Validate`, `TrustedIssuers`, `NewVerifierSet`, `Authorize` | trimmed and untrimmed texts, a Go map's order, first rule wins | an authorization rests on a rule whose own issuer signed the token; no accepted rule is dead |
| broker start-up `broker/listen.go`, `cmd/pade-broker` | the flags, the policy, the bindings, the registry | `ResolveListenAddr`, `ListenConfig.Validate`, `main` | a table of flags, PORT, certificates and a proxy assertion | no plaintext beyond loopback unless asserted; material only from the binding of a granted capability |
| resolve endpoint `broker/server.go` | semaphore, one context and one material per request, the listener | `handleResolve`, shutdown | ten ways out of the handler, deadline against answer, providers that ignore the context, clients that leave | slots and materials are given back on every way out; at most N in flight; the process ends |
| scoped run `execution/scoped.go`, `binding/resolve.go` | results and their materials, the child's environment | `Run`, `ResolveMaterials`, `MergeEnv`, `ClearMaterials` | failure after some capabilities were resolved, expiry while resolving, conflicting and omitted keys, processes the child leaves behind | the child gets exactly the merged credentials, unexpired; the redactors know what it got; all is discarded |
| redactor `execution/redact.go` | pending bytes, sticky write error | `Write`, `Close`, `flush` | secrets split over writes, runes, a destination that fails | no whole secret comes out, nothing else is hidden, no byte is lost, little is held back |
| broker call `binding/broker`, `identity/*`, `securehttp` | one request at a time | mint with retries, resolve, redirects | lost answers, retries, redirects, timers on both sides | the token stays on TLS or this host; one issue per call; no credential is issued in vain; the call ends |
| CLI providers `binding/exec`, `onepassword`, `keeper`, `cliproc` | a process, two pipes, two limited buffers | one or two runs per reference | output over the limit, full pipes, kill, orphans on the pipes, screens with notices, the environment handed down | only whole values are handed on, and the right ones; programs see what they should; the call ends |
| API providers `binding/env`, `vault`, `keepersm` | a client, at most one request | one look, one request, or one call per reference | stores that lack values, hold other types or are rotated meanwhile | a material is complete, and of one version where one request reads it |
| bindings and CLI session `binding/config_*.go`, `binding/provider.go`, `providerset`, `cmd/pade` | files in four places, the loaded bindings | find, load, validate, inspect, exec | files that change between two steps, plan against exec | bindings are usable, a workspace that is to be ignored has no effect, and plan tells what exec does |
| manifest `manifest` | a document | `Parse`, the schema, `Validate` | two sets of rules, an older format | only valid manifests are planned or run |
| planner, output, version, identity context, identity command, example programs, scripts | none that lasts | formatting, one request | little | planner in the session; the others not modelled |

They interact so: `main` of the broker builds the verifiers from the policy and
serves `handleResolve`, which calls `Verify`, then `Authorize`, then
`ResolveMaterials` with one capability.  `pade exec` loads bindings and calls
`Run`, which calls `ResolveMaterials` with all requested capabilities; its
providers run programs or call the broker.  Shared state exists in two places
only, the verifier's cache and the server's semaphore; everything else belongs
to one call.

## Modules

| module | models | composed of |
|---|---|---|
| `JwksCache` | the verifier with any number of calls; one action per step between two points where another call can intervene (lock, unlock, exchange, lookup) | extends `JwksDocument`, refines `KeyTrust` |
| `JwksDocument` | `parseJWKS` over documents, and what it may not depend on | |
| `KeyTrust` | abstract: which verdicts are justified by what the issuer published, and when | |
| `JwksCacheProofs` | theorems about `JwksCache` and its documents | `JwksCache` |
| `BrokerPolicy` | operators: texts, repository identities, `Validate`, `TrustedIssuers`, `Startable`, `Authorize` | |
| `BrokerListen` | operators: the address chosen, what `ListenConfig.Validate` admits, the transport served | |
| `ProviderSet` | the provider names a file may use, what makes an entry valid, and the two registries | |
| `BrokerAuthz` | `main` of the broker with its deployment (`Refuse`, `Serve`), one request of it decided and resolved (`Decide`, `Resolve`) | `BrokerPolicy`, `BrokerListen`, `ProviderSet` |
| `BrokerAuthzProofs` | theorems about `BrokerAuthz` | `BrokerAuthz` |
| `ResolveServer` | `handleResolve` step by step for a set of requests, deadlines, clients that leave, `ListenAndServe` | refines `ResolveSlots` |
| `ResolveSlots` | abstract: a set of slots, busy only when all are taken | |
| `ResolveServerProofs` | theorems about `ResolveServer` | `ResolveServer` |
| `ScopedRun` | `Runner.Run` and `ResolveMaterials`, provider by provider, with a clock; the child, and what it leaves on its output | refines `ScopedCredentials` |
| `ScopedCredentials` | abstract: credentials acquired once, lent together and unexpired, discarded together | |
| `ScopedRunProofs` | theorems about `ScopedRun` | `ScopedRun` |
| `Redactor` | `Write`, `flush`, `Close` over sequences of bytes | |
| `RedactorProofs` | theorems about `Redactor` | `Redactor` |
| `BrokerCall` | one `Resolve` of the broker provider: mint, backoff, request, redirects, answer | |
| `TimedCall` | a `BrokerCall` against the timers of the consumer's client and of the broker's server | `BrokerCall` |
| `TimedCallProofs` | theorems about `TimedCall` and `BrokerCall` | `TimedCall` |
| `ProviderProcess` | one `Resolve` of exec, onepassword or keeper: processes, pipes, buffers, `WaitDelay` | `ProviderPrograms`, `KeeperOutput` |
| `ProviderPrograms` | what a program sees of the environment | |
| `KeeperOutput` | the password in a screen and in a record of Keeper Commander | |
| `Providers` | one `Resolve` of any provider but broker, over a store that may be rotated | `ProviderProcess` |
| `ProvidersProofs` | theorems about `Providers` and all it is composed of | `Providers` |
| `Manifest` | which documents are loaded, and which are valid | |
| `DevelopmentSession` | the commands `validate`, `plan`, `capabilities` and `exec` over a manifest and over bindings files that change | `Manifest`, `ProviderSet` |
| `DevelopmentSessionProofs` | theorems about `DevelopmentSession` | `DevelopmentSession` |

State corresponds to the code's fields by name where TLA+ allows (`keys`,
`fetchedAt`, `refreshMu`, `resolveSem` as `sem`, `pending`, `Exceed` as
`exceed`); `pc` or `phase` is the place in the function.  Variables marked
*history* record what the properties speak of and the code does not store.
Definitions named like another with a suffix (`FetchFailsStamped`,
`WrittenStopping`) are variants of it with a plausible bug, used to show that
the properties notice; no specification uses them.

What is abstracted: a JWKS document is a sequence of entries, of which only
the kid and the reasons to skip or to refuse it are told apart; a token is a
record of what the checks ask of it; a text of the policy is a name with or
without surrounding space; a host is the class of its spelling; a manifest is
the classes of its fields; a material is a small environment, an expiry and
whether `Validate` accepts its keys; the bytes of a provider's output are
counted, the lines of a screen of Keeper are names.  Times are natural numbers
that keep the order of the constants (exchange timeout < throttle < TTL; in
`TimedCall` one unit is five seconds).

## Runs

All passing runs end with no error; their sizes are bounds of the instances, not
of the modules.

| run (cfg) | question | bounds, and why they are enough |
|---|---|---|
| `jwks_cache` (`MCJwksCache`) | Does the invariant hold; does a kid name one key; how stale can an accepted key be, how late is a rotated key seen; does the cache implement `KeyTrust`? | 1,541,399 states.  Two calls at a time: every property relates one call to the others' last publication, and the mutex admits one exchange.  The key sets are those of all documents of up to three entries, of eight kinds: a repetition needs two, and its neighbour one more.  A first key set and one rotation of two kids, at any moment; TTL 3 with a throttle and an exchange of 1, so that a rotated key is only found by a forced fetch, and clock 5, so that a key outlives TTL and exchange; the token lives too long until time 2 (tokens that expire are left to the proof) |
| `jwks_calls` (`MCJwksCalls`) | Do concurrent calls keep key sets in order, share a fetch after an expiry, space forced fetches; does every call return, and one with a known kid without the mutex? | 259,689 states.  Tokens of two kids and one of another algorithm; clock 1: who fetches, and who waits for whom, is about the mutex and the exchange, not about time |
| `jwks_throttle` (violation) | Are failed forced fetches throttled, as the comment says? | finding 1 |
| `broker_authz` (`MCBrokerAuthz`) | Is a grant justified, is no rule dead, whatever the order of the Go map of issuers; where does plaintext go, and what is released (both in `Inv`)? | 84,710 states.  One or two rules over two issuers, texts with and without space, equal issuers under two aliases, aliases that trim alike: shadowing needs two rules, ambiguity two aliases.  One policy under every combination of `-listen`, `PORT`, certificate, key and termination, and under bindings of every kind of provider name, of sound and broken sections and of either version |
| `resolve_server` (`MCResolveServer`) | Are slots and materials accounted for on every path; does the semaphore implement a set of slots; does every request end, unless its provider ignores the context; does a signal end the broker all the same? | Two requests for one slot: one is refused while the other holds it, and takes it when it is free (the proof is for any number of both); a provider that heeds its context and one that does not |
| `resolve_timeout` (violation) | Does the timeout bound every resolve? | finding 2 |
| `scoped_run` (`MCScopedRun`) | Is the child's environment right and unexpired, do the redactors know it, is nothing resolved twice (in `Inv`), does the run implement a scope (`ScopedCredentials`) that discards everything on every way out, and when does `Run` return? | 122,811 states.  Two capabilities in every order and repeated, a provider that omits a key, one the registry lacks; two keys, two values and a blank one allow a conflict, an agreement and an overlay; clock 3 lets the first material expire while the second is resolved |
| `redactor` (`MCRedactor`) | Are secrets hidden, and only they, however the output is split; is no byte lost and little held back (in `Inv`)? | 191,427 states.  All splits of five bytes over an alphabet with a lead and a continuation byte, sets of secrets that overlap themselves or each other, contain each other, or are of two-byte runes; a secret of four bytes leaves room for a false start |
| `redactor_split` (violation) | Is a value redacted when split if it would be redacted at once? | finding 3 |
| `broker_call` (`MCBrokerCall`) | Where does the token go, how often are services asked, may a timer cost a credential that was issued, does the call end? | 368,908 states.  Three retries as in the code; three redirects (the code admits ten) visit every pair of the five endpoints in a row; the timers are those of the code, in units of five seconds, which divide them all |
| `development_session` (`MCDevelopmentSession`) | Which bindings are used, for which capabilities, and does `plan` foretell `exec`, also when the file of a workspace that is to be ignored changes in between? | 3.6 million states.  Any content in each of the four places, any of five manifests, one change at any moment, any number of commands |
| `provider_process` (`MCProviderProcess`) | Are only whole values handed on, and the right ones; what do programs see; when is a run final and when does keeper ask again, is no program left blocked, does a resolve end after its context? | 157,460 states.  One captured unit, a pipe of two, outputs of zero, the limit, one more, and more than buffer and pipe together; two references, which a rotation can come between; four screens, four records, three environments; the program of exec may give a value, a blank one or none |

`CHECK_DEADLOCK FALSE` stands where the program really stops: a call, a run or
a redactor that is done, a broker that has exited or refused its policy, a
session whose files have changed as often as the bound admits.

### Findings

1. `ForcedFetchThrottled`: `refreshForKid` stamps the throttle after a fetch
   has *succeeded*; while the endpoint fails, unknown kids are not throttled.
2. `ResolveBounded`: the resolve timeout is a context; a provider that ignores
   it (keeper-secrets-manager does) keeps the handler and its slot.
3. `SplitValuesRedacted`: with a secret that begins another, the longer one may
   be redacted in part or in whole depending on how the output was split.

The second has a sibling that no document contradicts: the exec provider sets
no `WaitDelay` (`binding/exec/provider.go:144`), so after its context it waits
for whatever its killed program left on the pipes.  `ResolveEnds` excepts
exactly that, and the SDK of Keeper, which gets no context
(`binding/keepersm/provider.go:108`).  `RunEnds` says the same of `pade exec`
and its child (`execution/scoped.go:115`).

Other places where the code and its words or its neighbours part:

- `examples/providers/github/README.md:74` says that its fields may be omitted
  when `GITHUB_APP_*` are set on the broker host.  The environment that exec
  gives its programs is an allowlist (`binding/exec/provider.go:193`,
  `docs/provider-contract.md:83`), which has none of these variables, so the
  program does not see them.  (The same is true of `GA_PROPERTY_ID`.)  The
  module `ProviderPrograms` has the allowlist; the example programs are not
  modelled, and no property speaks of these variables.
- exec refuses an answer without an env map, and takes any other
  (`binding/exec/provider.go:60`): an empty map, or a variable set to nothing,
  is a material.  `SecretsRead` excepts it, as it does env and vault.
- A comment in `cmd/pade-broker/main.go:79` speaks of Cursor issuers; the
  default JWKS URL is in fact filled in for any issuer of the older format that
  has none.  `BrokerPolicy!TrustedIssuers` does what the code does.
- Vault's numbers come out as a float prints them and null as `<nil>`; if two
  fields of a binding name one variable, the order of a Go map decides.
  `MaterialComplete` and `SecretsRead` except these.

## Fairness

- `JwksCache!FairSpec`: a call computes on (WF), and nothing else: exchanges
  may hang and waiters wait.  `ExchangesEnd`, the premise of `CallsReturn`, is
  that an exchange ends, because its client has a timeout (`jwksTimeout`), and
  that a call that waits for `refreshMu` gets it in the end although others
  take it again and again (SF), because `sync.Mutex` hands itself to a waiter
  that has starved for a millisecond.  Nothing makes a caller call or an
  endpoint answer.
- `ResolveServer!FairSpec`: a handler computes on (its reads and writes are
  under the server's timeouts, its `Verify` returns by `CallsReturn`), timers
  fire, and a provider that heeds its context returns once that is over.  No
  fairness for other providers, for clients or for the signal.
- `TimedCall!FairSpec`: `Resolve` goes on, the clients of the identity services
  give up (15 s, 5 s), time passes, and the timers fire: the consumer's (30 s),
  and the broker's for the body, the resolve and the write.  No answer is
  assumed, neither of a service nor of a provider.
- `ScopedRun!FairSpec`: `Run` goes on when it can.  Nothing makes a provider
  return, a child exit, or a process it left behind let go of the output;
  `RunEnds` is conditional on them.
- `Providers!FairSpec`: the runtime kills, copies and lets `WaitDelay` pass, the
  client of Vault ends its request (10 s), the provider goes on.  Nothing is
  assumed of the SDK of Keeper.  `ProgramProceeds`, the premise of
  `ProgramNeverStuck` alone, is that a program writes and exits when it can.

## Proofs

Every safety invariant, every action property and each of the three refinements
that the passing runs check are also theorems, proved by TLAPS for every value
of the constants that satisfies the assumptions of the modules: any number of
callers, requests, slots, retries and redirects, any TTL, limit, pipe and
timeout, any policy, token, manifest, bindings file, set of secrets and output
of any length.

The assumptions say what the code guarantees or the abstraction means: sizes
and times are natural numbers (limits, slots and the TTL at least one), the
secrets of a redactor are finitely many and not empty, there is a manifest,
the references of a binding are finitely many and not none, the lines of a
screen and the texts of a record are among the classes they are told apart by.
TLC evaluates each of them in
a passing run.

- `JwksCacheProofs`: `Invariance` (`Spec => []Inv`), and from it
  `AcceptedFresh`, `RotationSeen`, `InOrder`, `ForcedSpaced`, `Coalesced` and
  the refinement `ImplementsKeyTrust`; `DocumentsUnambiguous`, that a kid names
  one key in every key set that comes of a document.  `AcceptedKeyFresh` is not
  inductive: it speaks of the moment a call returns.  `Inv` adds what carries
  it there: who holds the mutex is who fetches (`HolderFetches`), an exchange is
  at most one timeout old and younger than its call (`TimesOrdered`), an answer
  lies between the cache and the issuer (`AnswersCurrent`), the same of the cache
  (`CacheCurrent`), and what a call may rely on at each place
  (`CallCurrent`), which holds because keys are only ever replaced by younger
  ones.  One lemma per action; `LocalMove` does the steps that change no key.
- `BrokerAuthzProofs`: `Invariance`, that plaintext is confined
  (`PlaintextConfined`) and that material comes from the binding of a
  capability that a granting rule lists (`ReleaseGranted`);
  `GrantsJustified`, `RulesAlive`; all from the invariant
  that a serving broker has accepted what it serves under, and trusts the
  issuers of its policy (`ServingConfigured`).  `AuthorizeExact` is the lemma
  that under a valid policy `Authorize` allows exactly what some matching rule
  grants: uniqueness of issuer and subject is what makes "first rule" harmless.
- `ResolveServerProofs`: `Invariance`, `MaterialIsBounded` and the refinement
  `ImplementsSlots`.  `Inv` counts the handlers between acquisition and release
  (`SlotsAccounted`), which the number in the channel alone does not say, and
  ties material to the places where it is still to be cleared
  (`MaterialOwned`).
- `ScopedRunProofs`: `Invariance`, `EnvironmentRight` (`ChildEnvironment`) and
  the refinement `ImplementsScope`.  The invariant is `LoopInv`: the results
  are the capabilities that the loop has passed, all of them callable and
  called once, and nothing else has material.  That each variable of the child
  has the value of *every* material that assigns it follows from the merge
  having found no conflict; that each outlived the last provider from the merge
  looking at the expiry again, at a time that is never earlier (`MergeEnv`).
- `TimedCallProofs`: `Invariance` (`TokenConfined` and the clocks), `OneIssue`,
  `AnswerEndsAsking`, `TimersFit`.  `TokenConfined` speaks of what was sent; the
  invariant adds where the request may still go (`Confinement`: a plain endpoint
  was reached over plain ones only, which is what makes a redirect back to this
  host harmless), what the phase tells of what was done (`CallProgress`), the
  stage of the broker for each phase of the call (`ServerProgress`), and, for
  the timers, that while the network takes no time the client's clock is the
  handler's (`Resolving`).
- `DevelopmentSessionProofs`: `Invariance`, `BindingsUsable`, `PlanHolds`.  `PlanForetells` compares a report with a later `exec`, with any
  commands in between; `Foretold` says what a report has to agree with at any
  time while nothing that counts changes, and `ReportInv` ties it to the step a
  command is at; `IgnoredUnseen` shows that a workspace's file does not count
  while it is not trusted or the operator has bindings of their own.  `SessionInv` is what a command has already checked at that step.
- `ProvidersProofs`: `MaterialWhole`, `FallbackIsDecided`, `Invariance` (with
  `SecretsRead`), and `Confined`, which is about every environment and has no
  state.  `BufferInv` says that a buffer has what was copied up to the limit and
  knows whether that is all, and that a program that exits well has written all
  it prints; `RunInv` counts the runs of a reference; `MaterialInv` says that
  what was read is whole and that a reference without a value was not tried.
  `TextInv` carries the texts: Keeper's parsers are proved to find the secret in
  a screen and in a record of any length where it can be told (`ScreenTells`,
  `DocumentTells`).
- `RedactorProofs`: `Invariance` (nothing lost, little held back, runes whole),
  `NoSecretOut`, `PlaceholderIsSecret`, `SplitMakesNoDifference`.  That no whole
  secret has come out is not inductive: a secret may be half out and half
  pending.  `Settled` says more: at no position of what was passed on can a
  secret begin, whatever comes next, because a byte of it is hidden or another
  one, here or in what is pending.  It survives a flush because what is withheld
  is one byte less than the longest secret.  `SplitMakesNoDifference` compares
  with `HiddenAtOnce`, a recursive function from the start of the output;
  `LeftToRight` gives the positions it goes through, each step a visible byte
  where no secret is, or a hidden secret, and `NoOverlap` shows that, if no
  secret contains another, one that is not complete cannot begin before the
  first complete one.

What would need induction (a longest secret, the first occurrence, the
recursion of `HiddenAtOnce`, the last line of a screen) is proved from a least
or greatest counterexample, which the well-founded order of the natural numbers,
or of the subsets of a finite set, provides (`Least`, `Greatest`,
`LongestExists`, `MinIsLeast`).  `KeeperOutput` and the reference of `Redactor`
are written without RECURSIVE operators and `SelectSeq` for that reason.

TLC finds the strengthenings to hold on the instances of the runs, too;
`ScopedRun!LoopInv` and those of `JwksCache` and `ResolveServer` are parts of
`Inv` and are checked with it.

Only model-checked: all liveness (`CallsReturn`, `KnownKidNotBlocked`,
`RequestsEnd`, `ShutdownCompletes`, `CallEnds`, `ProgramNeverStuck`,
`ResolveEnds`, `RunEnds`), which needs ENABLED.  The properties of the runs that
end in a violation are false of the code.

## Not modelled

- Probing: nothing in the consumer or the broker probes in a run.
- The request that a program reads from stdin, and the answers of programs and
  services as texts: an answer decodes or not.
- `output.go`, `version.go`: formatting, and a constant.
- `identity_context.go`: one value put into a context and read back;
  `ResolveServer` has the order (after `Verify` and `Authorize`).
- The command `pade identity` and `identity/cursor/claims.go`: a mint, which
  `BrokerCall` has, whose claims are printed.
- The token cache of the Cursor source: each resolve makes a new source, so it
  is always empty.
- The example programs under `examples/providers`: `ProviderProcess` runs an
  arbitrary program in their place.  (In `derive.go:228` of the one for GitHub a
  selector of the wrong type counts as none, and without selectors the token is
  for the whole installation.)  The fake client of keeper-secrets-manager and
  the scripts serve tests.
- In `ResolveServer` timers are not ordered against each other (`TimedCall` has
  them in order, for one request), and its `verify` step is one call whose end
  is justified by `CallsReturn`, not a composition with `JwksCache`.

## Plan

The order is that of importance: first the broker's decisions and the key cache
they rest on, then the handling of material, then the edges.

Done: everything under *Modules*.

Next, modules:

1. `VerifiedResolve`: `ResolveServer` composed with `JwksCache`, the handler's
   `verify` step being a call of the cache under the handler's deadline, to
   check the slot bound against the waits for `refreshMu`.
2. A redacting channel as an abstract specification that `Redactor` implements.

Next, proofs:

1. Of `VerifiedResolve`, that a composed handler still accounts for its slot and
   that its steps are steps of both components.
2. That `Redactor` implements the channel of 2., from `LeftToRight`.
3. That a broker call refines the abstract scope's acquisition: material of the
   caller implies exactly one issue of the broker, across the timers of both.
4. Lemmas that `BrokerPolicy!Validate` admits what `Startable` needs, for texts
   of any surrounding space.
