------------------------------- MODULE Policy -------------------------------
(***************************************************************************)
(* How the daemon's configuration becomes the bounds of a sandbox: Load     *)
(* validates the file, run takes the registry credential from it, Options   *)
(* and NewSpec resolve a profile over the library's defaults, buildConfig   *)
(* writes it to the container's labels and limits, and Open, the reaper and *)
(* Exec read it back, in processes that share nothing but the labels.  The  *)
(* daemon may be restarted with another file at any time.                   *)
(*                                                                         *)
(* Numbers are scaled down: a MiB is MiB bytes and an int64 has Width       *)
(* values.  CPUs, a float, is left out: below a billionth it truncates to   *)
(* NanoCPUs of zero, which is no limit.  MaxSandboxes, image and runtime    *)
(* are passed on as they are.                                               *)
(***************************************************************************)
EXTENDS Integers

CONSTANTS
  Files,       \* the configuration files there may be
  Reloads,     \* those that a restart may bring
  Requests,    \* the options callers may pass to the client's Create
  Timeouts,    \* what commands ask for; zero or less: none given
  Names, Auths,
  MiB, Width,
  DefaultMemoryBytes, DefaultDiskBytes, DefaultMaxProcesses,
  DefaultIdleTimeout, DefaultMaxAge,
  DefaultCommandTimeout, MaxCommandTimeout, DefaultReapInterval,
  Nil

\* What a request's options hold; zero for an option that is not passed.
RequestType ==
  [memory : Int, disk : Int, procs : Int, idle : Int, maxAge : Int, default : Int, max : Int]

ProfileType ==
  [memory : Int, disk : Int, procs : Int, idle : Int, maxAge : Int, default : Int, max : Int,
   egress : STRING, user : STRING, auth : Auths \cup {Nil}]

Positive == Nat \ {0}

\* The address of a listen block by class; which of its files are named; and the
\* clients it admits.
ListenType ==
  [address : {"", "host", "host:", "host:0", "host:port"},
   cert : BOOLEAN, key : BOOLEAN, ca : BOOLEAN, cns : SUBSET {"", "name"}]

IsFile(f) ==
  /\ f.socket \in BOOLEAN /\ f.listen \in ListenType \cup {Nil} /\ f.reap \in Int
  /\ DOMAIN f.profiles \subseteq Names
  /\ \A n \in DOMAIN f.profiles : f.profiles[n] \in ProfileType

ASSUME PolicyInputs ==
  /\ \A f \in Files : IsFile(f)
  /\ Reloads \subseteq Files /\ Requests \subseteq RequestType
  /\ Timeouts \subseteq Int /\ Nil \notin Auths
ASSUME PolicyDefaults ==
  /\ DefaultMemoryBytes \in Positive /\ DefaultDiskBytes \in Positive
  /\ DefaultDiskBytes > 1
  /\ DefaultMaxProcesses \in Positive
  /\ DefaultIdleTimeout \in Positive /\ DefaultMaxAge \in Positive
  /\ DefaultCommandTimeout \in Positive /\ MaxCommandTimeout \in Positive
  /\ DefaultReapInterval \in Positive
ASSUME PolicyWidth ==
  MiB \in Positive /\ MiB > 1 /\ Width \in Positive /\ \E n \in 1..Width : Width = n * MiB

VARIABLES
  phase,     \* the daemon: "file", "profiles" being validated, "refused", "serving"
  file,
  todo,      \* profiles still to be validated
  auth,      \* the credential that validation has met
  login,     \* the credential of the Docker connection
  interval,  \* of the reaper
  name,      \* the profile that the sandbox was created under, and
  made,      \* what it was then
  labels,    \* the container's labels
  host,      \* the container's limits
  handle,    \* the timeouts in an opened handle
  asked,     \* what the last command asked for
  timeout    \* what it got

configVars  == <<phase, file, todo, auth, login, interval>>
createVars  == <<name, made, labels, host>>
commandVars == <<handle, asked, timeout>>
vars == <<configVars, createVars, commandVars>>

-----------------------------------------------------------------------------
(* pkg/sandbox/options.go                                                   *)

Or(v, default) == IF v > 0 THEN v ELSE default

\* Mutant of WithResources: every field that is not zero is taken.
WithResourcesNonZero(r) ==
  [memory |-> IF r.memory # 0 THEN r.memory ELSE DefaultMemoryBytes,
   disk   |-> IF r.disk # 0 THEN r.disk ELSE DefaultDiskBytes,
   procs  |-> IF r.procs # 0 THEN r.procs ELSE DefaultMaxProcesses]

\* A field that is not positive keeps its default.
WithResources(r) ==
  [memory |-> Or(r.memory, DefaultMemoryBytes),
   disk   |-> Or(r.disk, DefaultDiskBytes),
   procs  |-> Or(r.procs, DefaultMaxProcesses)]

\* Only zero keeps the default: a negative bound is a disabled one.
WithLifetime(idle, maxAge) ==
  [idle   |-> IF idle # 0 THEN idle ELSE DefaultIdleTimeout,
   maxAge |-> IF maxAge # 0 THEN maxAge ELSE DefaultMaxAge]

WithCommandTimeouts(def, ceiling) ==
  [default |-> Or(def, DefaultCommandTimeout), max |-> Or(ceiling, MaxCommandTimeout)]

\* validateUser, by class: numeric, and neither uid nor gid 0.
ValidUser(user) == user \in {"", "numeric"}

\* Spec.Validate; what Options makes of an egress string is always a known policy.
ValidSpec(p, resources) == ValidUser(p.user) /\ resources.disk <= resources.memory

-----------------------------------------------------------------------------
(* internal/daemon/config.go                                                *)

\* MemoryMB << 20, in an int64.
Shift20(mb) ==
  LET v == (mb * MiB) % Width IN IF 2 * v >= Width THEN v - Width ELSE v

\* Profile.Options, resolved by NewSpec.
Resources(p) ==
  WithResources([memory |-> Shift20(p.memory), disk |-> Shift20(p.disk), procs |-> p.procs])
Lifetime(p)        == WithLifetime(p.idle, p.maxAge)
CommandTimeouts(p) == WithCommandTimeouts(p.default, p.max)

\* Mutant of Validate: negative lifetimes are left to the library.
ValidateSigned(p) ==
  /\ p.egress \in {"", "none", "unrestricted"}
  /\ p.memory >= 0 /\ p.disk >= 0 /\ p.procs >= 0
  /\ p.default >= 0 /\ p.max >= 0
  /\ ~(p.max > 0 /\ p.default > p.max)
  /\ ValidSpec(p, Resources(p))

\* Profile.validate
Validate(p) ==
  /\ p.egress \in {"", "none", "unrestricted"}
  /\ p.memory >= 0 /\ p.disk >= 0 /\ p.procs >= 0
  /\ p.idle >= 0 /\ p.maxAge >= 0
  /\ p.default >= 0 /\ p.max >= 0
  /\ ~(p.max > 0 /\ p.default > p.max)
  /\ ValidSpec(p, Resources(p))

\* Mutant of SameAuth: a later credential is not compared with the first.
SameAuthGiven(p, known) == TRUE

\* One Docker connection carries one credential.
SameAuth(p, known) == p.auth = Nil \/ known = Nil \/ p.auth = known

\* ListenConfig.validate: nothing defaults.
ValidListen(l) ==
  /\ l.address = "host:port"
  /\ l.cert /\ l.key /\ l.ca
  /\ l.cns # {} /\ "" \notin l.cns

\* Config.validate, up to the profiles.
ValidHead(f) ==
  /\ f.socket \/ f.listen # Nil
  /\ f.listen # Nil => ValidListen(f.listen)
  /\ DOMAIN f.profiles # {}
  /\ f.reap >= 0

\* Mutant of ProfileInfo: the idle timeout is written twice.
ProfileInfoIdle(p) == [idle |-> p.idle, maxAge |-> p.idle]

\* handleProfiles, of one profile: the bounds as configured, zero when unset.
ProfileInfo(p) == [idle |-> p.idle, maxAge |-> p.maxAge]

-----------------------------------------------------------------------------
(* pkg/brokerclient                                                         *)

\* policyFields: some field of the resolved options differs from its default.
PolicyFields(o) ==
  \/ WithResources(o) # WithResources([memory |-> 0, disk |-> 0, procs |-> 0])
  \/ WithLifetime(o.idle, o.maxAge) # WithLifetime(0, 0)
  \/ WithCommandTimeouts(o.default, o.max) # WithCommandTimeouts(0, 0)

-----------------------------------------------------------------------------
(* pkg/docker: labels written by buildConfig and read by Open and expired.  *)

\* Duration.String and ParseDuration: what one writes the other reads.
Format(d) == [text |-> d]
Parse(v)  == v.text

\* parseDurationLabel; parseSignedDurationLabel keeps what parses.
ParseDurationLabel(v, fallback) == Or(Parse(v), fallback)
ParseSignedDurationLabel(v) == Parse(v)

\* buildConfig; the scratch budget is split between two mounts.
BuildLabels(p) ==
  [idle    |-> Format(Lifetime(p).idle),
   maxAge  |-> Format(Lifetime(p).maxAge),
   default |-> Format(CommandTimeouts(p).default),
   max     |-> Format(CommandTimeouts(p).max)]

BuildLimits(p) ==
  [memory  |-> Resources(p).memory,
   scratch |-> Resources(p).disk \div 2,
   pids    |-> Resources(p).procs]

\* Mutant of ResolveTimeout: only the default is bounded.
ResolveTimeoutTrusts(h, requested) == IF requested <= 0 THEN h.default ELSE requested

ResolveTimeout(h, requested) ==
  LET want == IF requested <= 0 THEN h.default ELSE requested
  IN  IF h.max > 0 /\ want > h.max THEN h.max ELSE want

-----------------------------------------------------------------------------
Init ==
  /\ phase = "file" /\ file \in Files
  /\ todo = {} /\ auth = Nil /\ login = Nil /\ interval = 0
  /\ name = Nil /\ made = Nil /\ labels = Nil /\ host = Nil
  /\ handle = Nil /\ asked = 0 /\ timeout = Nil

\* Load and Config.validate, up to its loop.
Load ==
  /\ phase = "file"
  /\ IF ValidHead(file)
     THEN /\ phase' = "profiles" /\ todo' = DOMAIN file.profiles /\ auth' = Nil
          /\ interval' = Or(file.reap, DefaultReapInterval)
     ELSE phase' = "refused" /\ UNCHANGED <<todo, auth, interval>>
  /\ UNCHANGED <<file, login, createVars, commandVars>>

\* One turn of the loop over the map of profiles, in no particular order.
ValidateProfile(n) ==
  LET p == file.profiles[n]
  IN  /\ phase = "profiles" /\ n \in todo
      /\ IF Validate(p) /\ SameAuth(p, auth)
         THEN /\ todo' = todo \ {n}
              /\ auth' = IF auth = Nil THEN p.auth ELSE auth
              /\ UNCHANGED phase
         ELSE phase' = "refused" /\ UNCHANGED <<todo, auth>>
      /\ UNCHANGED <<file, login, interval, createVars, commandVars>>

\* run takes the first credential that it meets, in another order.
Serve ==
  /\ phase = "profiles" /\ todo = {}
  /\ phase' = "serving"
  /\ LET auths == {file.profiles[n].auth : n \in DOMAIN file.profiles} \ {Nil}
     IN  IF auths = {} THEN login' = Nil ELSE login' \in auths
  /\ UNCHANGED <<file, todo, auth, interval, createVars, commandVars>>

\* The daemon is stopped, and started with another file or the same one.
Restart ==
  /\ phase = "serving"
  /\ phase' = "file" /\ file' \in Reloads \cup {file}
  /\ todo' = {} /\ auth' = Nil /\ login' = Nil /\ interval' = 0
  /\ handle' = Nil /\ asked' = 0 /\ timeout' = Nil
  /\ UNCHANGED createVars

\* The client's Create, which refuses policy, and the daemon's under the profile.
Create(n, o) ==
  /\ phase = "serving" /\ n \in DOMAIN file.profiles
  /\ labels = Nil
  /\ ~PolicyFields(o)
  /\ name' = n /\ made' = file.profiles[n]
  /\ labels' = BuildLabels(file.profiles[n])
  /\ host' = BuildLimits(file.profiles[n])
  /\ UNCHANGED <<configVars, commandVars>>

Open ==
  /\ phase = "serving" /\ labels # Nil
  /\ handle' = [default |-> ParseDurationLabel(labels.default, DefaultCommandTimeout),
                max     |-> ParseDurationLabel(labels.max, MaxCommandTimeout)]
  /\ UNCHANGED <<configVars, createVars, asked, timeout>>

Exec(t) ==
  /\ handle # Nil
  /\ asked' = t
  /\ timeout' = ResolveTimeout(handle, t)
  /\ UNCHANGED <<configVars, createVars, handle>>

Next ==
  \/ Load \/ (\E n \in Names : ValidateProfile(n)) \/ Serve \/ Restart
  \/ (\E n \in Names, o \in Requests : Create(n, o)) \/ Open
  \/ \E t \in Timeouts : Exec(t)

Spec == Init /\ [][Next]_vars

-----------------------------------------------------------------------------
\* Every variable has its type; the timeouts in a handle are positive, and in
\* the labels too, so that no reader falls back to a default of its own.
TypeOK ==
  /\ phase \in {"file", "profiles", "refused", "serving"}
  /\ file \in Files
  /\ todo \subseteq Names
  /\ auth \in Auths \cup {Nil} /\ login \in Auths \cup {Nil}
  /\ interval \in Nat /\ (phase \in {"profiles", "serving"} => interval > 0)
  /\ labels # Nil =>
       /\ name \in Names /\ made \in ProfileType
       /\ labels.default.text \in Positive /\ labels.max.text \in Positive
       /\ labels.idle.text \in Int /\ labels.maxAge.text \in Int
       /\ host.memory \in Int /\ host.scratch \in Int /\ host.pids \in Int
  /\ handle # Nil => labels # Nil /\ handle.default \in Positive /\ handle.max \in Positive
  /\ asked \in Int
  /\ timeout # Nil => labels # Nil /\ timeout \in Positive

(***************************************************************************)
(* Whatever an accepted profile leaves out, the reaper finds both bounds    *)
(* enabled in the labels: such a profile "still ends up bounded by          *)
(* sandbox.DefaultIdleTimeout and sandbox.DefaultMaxAge" (config.go:207),   *)
(* although WithLifetime takes a negative value for a disabled bound.       *)
(***************************************************************************)
LifetimeBounded ==
  labels # Nil =>
    /\ ParseSignedDurationLabel(labels.idle) > 0
    /\ ParseSignedDurationLabel(labels.maxAge) > 0

(***************************************************************************)
(* Every sandbox of an accepted profile has limits on memory, scratch space *)
(* and processes, and its scratch space fits its memory, also when a size   *)
(* in the configuration overflows (a tmpfs of size zero has no limit, and   *)
(* neither have pids or memory of zero).                                    *)
(***************************************************************************)
ResourcesBounded ==
  labels # Nil =>
    /\ host.memory > 0 /\ host.scratch > 0 /\ host.pids > 0
    /\ 2 * host.scratch <= host.memory

(***************************************************************************)
(* A command never runs longer than the maximum of the profile its sandbox  *)
(* was created under, which travelled through the labels and past restarts, *)
(* nor longer than it asked for: "a caller can only narrow it"              *)
(* (internal/daemon/exec.go:41).                                            *)
(***************************************************************************)
CommandsBounded ==
  timeout # Nil =>
    /\ timeout <= Or(made.max, MaxCommandTimeout)
    /\ asked > 0 => timeout <= asked

(***************************************************************************)
(* Every profile that names a credential is served with that one, in        *)
(* whatever order validation and run go through the map: the daemon does    *)
(* not authenticate "as a different registry account on every restart"      *)
(* (config.go:146).                                                         *)
(***************************************************************************)
LoginCommon ==
  phase = "serving" =>
    \A n \in DOMAIN file.profiles :
      file.profiles[n].auth # Nil => login = file.profiles[n].auth

(***************************************************************************)
(* As long as the profile is the one a sandbox was created under, what the  *)
(* daemon reports of it, with zero read as the library's default, is what   *)
(* the reaper goes by: "that reaper's TTL must stay ordered behind the      *)
(* daemon's" (client.go:162).                                               *)
(***************************************************************************)
ReportedInForce ==
  phase = "serving" /\ labels # Nil /\ name \in DOMAIN file.profiles
    /\ file.profiles[name] = made =>
    LET info == ProfileInfo(file.profiles[name])
    IN  /\ ParseSignedDurationLabel(labels.idle) = Or(info.idle, DefaultIdleTimeout)
        /\ ParseSignedDurationLabel(labels.maxAge) = Or(info.maxAge, DefaultMaxAge)
=============================================================================
