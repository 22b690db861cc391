---------------------------- MODULE PolicyProofs ----------------------------
(***************************************************************************)
(* Proofs about Policy: its types, that every sandbox of an accepted        *)
(* profile is bounded in its lifetime, its resources and its commands, that *)
(* the daemon logs in with the credential of every profile that names one,  *)
(* and that what callers are told is what is in force.                      *)
(***************************************************************************)
EXTENDS Policy, TLAPS

\* A positive value is kept, any other replaced by the positive default.
LEMMA OrPositive ==
  ASSUME NEW v \in Int, NEW d \in Positive
  PROVE  Or(v, d) \in Positive /\ (v > 0 => Or(v, d) = v)
BY DEF Or, Positive

\* A shifted size is some integer, and a positive one is at least a MiB: the
\* range of an int64 is a multiple of it.
LEMMA ShiftType == \A mb \in Int : Shift20(mb) \in Int /\ (Shift20(mb) > 0 => Shift20(mb) >= MiB)
<1> TAKE mb \in Int
<1> DEFINE v == (mb * MiB) % Width
           q == (mb * MiB) \div Width
<1>1. PICK n \in 1..Width : Width = n * MiB
  BY PolicyWidth
<1>2. mb * MiB \in Int /\ Width \in Nat /\ Width > 0 /\ MiB \in Nat /\ MiB > 0 /\ n \in Int
  BY <1>1, PolicyWidth DEF Positive
<1>3. v \in 0..(Width - 1) /\ q \in Int /\ mb * MiB = Width * q + v
  BY <1>2
<1> HIDE DEF v, q
<1>4. v = MiB * (mb - n * q)
  <2>1. n * q \in Int /\ (n * MiB) * q = MiB * (n * q)
    BY <1>2, <1>3
  <2>2. MiB * (mb - n * q) = mb * MiB - MiB * (n * q)
    BY <1>2, <2>1
  <2>3. QED
    BY <1>1, <1>2, <1>3, <2>1, <2>2
<1>5. v > 0 => v >= MiB
  <2> SUFFICES ASSUME v > 0 PROVE v >= MiB
    OBVIOUS
  <2> DEFINE m == mb - n * q
  <2>1. m \in Int /\ MiB * m > 0
    BY <1>2, <1>3, <1>4
  <2> HIDE DEF m
  <2>2. m >= 1
    BY <1>2, <2>1
  <2>3. MiB * m >= MiB
    BY <1>2, <2>1, <2>2
  <2>4. QED
    BY <1>4, <2>3 DEF m
<1>6. Shift20(mb) = IF 2 * v >= Width THEN v - Width ELSE v
  BY DEF Shift20, v
<1>7. QED
  BY <1>2, <1>3, <1>5, <1>6

\* What the options resolve to is well typed.
LEMMA ResolvedTypes ==
  ASSUME NEW p \in ProfileType
  PROVE  /\ CommandTimeouts(p).default = Or(p.default, DefaultCommandTimeout)
         /\ CommandTimeouts(p).max = Or(p.max, MaxCommandTimeout)
         /\ CommandTimeouts(p).default \in Positive /\ CommandTimeouts(p).max \in Positive
         /\ Lifetime(p).idle \in Int /\ Lifetime(p).maxAge \in Int
         /\ Resources(p).memory \in Positive /\ Resources(p).disk \in Positive
         /\ Resources(p).disk > 1 /\ Resources(p).procs \in Positive
<1>1. /\ p.memory \in Int /\ p.disk \in Int /\ p.procs \in Int /\ p.idle \in Int
      /\ p.maxAge \in Int /\ p.default \in Int /\ p.max \in Int
  BY DEF ProfileType
<1>2. /\ CommandTimeouts(p).default = Or(p.default, DefaultCommandTimeout)
      /\ CommandTimeouts(p).max = Or(p.max, MaxCommandTimeout)
  BY DEF CommandTimeouts, WithCommandTimeouts
<1>3. CommandTimeouts(p).default \in Positive /\ CommandTimeouts(p).max \in Positive
  BY <1>1, <1>2, OrPositive, PolicyDefaults
<1>4. Lifetime(p).idle \in Int /\ Lifetime(p).maxAge \in Int
  BY <1>1, PolicyDefaults DEF Lifetime, WithLifetime, Positive
<1>5. Shift20(p.memory) \in Int /\ Shift20(p.disk) \in Int
      /\ (Shift20(p.disk) > 0 => Shift20(p.disk) >= MiB)
  BY <1>1, ShiftType
<1>6. /\ Resources(p).memory = Or(Shift20(p.memory), DefaultMemoryBytes)
      /\ Resources(p).disk = Or(Shift20(p.disk), DefaultDiskBytes)
      /\ Resources(p).procs = Or(p.procs, DefaultMaxProcesses)
  BY DEF Resources, WithResources
<1>7. /\ Resources(p).memory \in Positive /\ Resources(p).disk \in Positive
      /\ Resources(p).procs \in Positive
  BY <1>1, <1>5, <1>6, OrPositive, PolicyDefaults
<1>8. Resources(p).disk > 1
  BY <1>5, <1>6, PolicyDefaults, PolicyWidth DEF Or, Positive
<1>9. QED
  BY <1>2, <1>3, <1>4, <1>7, <1>8

\* An accepted profile resolves to enabled lifetime bounds, which are the
\* configured ones or the defaults.
LEMMA AcceptedLifetime ==
  ASSUME NEW p \in ProfileType, Validate(p)
  PROVE  /\ Lifetime(p).idle > 0 /\ Lifetime(p).idle = Or(p.idle, DefaultIdleTimeout)
         /\ Lifetime(p).maxAge > 0 /\ Lifetime(p).maxAge = Or(p.maxAge, DefaultMaxAge)
<1>1. p.idle \in Int /\ p.maxAge \in Int
  BY DEF ProfileType
<1>2. p.idle >= 0 /\ p.maxAge >= 0
  BY DEF Validate
<1>3. QED
  BY <1>1, <1>2, PolicyDefaults DEF Lifetime, WithLifetime, Positive, Or

\* A resolved timeout is positive, within the maximum and within the request.
LEMMA Resolved ==
  ASSUME NEW h, h.default \in Positive, h.max \in Positive, NEW t \in Int
  PROVE  /\ ResolveTimeout(h, t) \in Positive
         /\ ResolveTimeout(h, t) <= h.max
         /\ t > 0 => ResolveTimeout(h, t) <= t
BY DEF ResolveTimeout, Positive

\* A profile of a file is a profile.
LEMMA FileProfiles ==
  ASSUME NEW f \in Files
  PROVE  /\ DOMAIN f.profiles \subseteq Names /\ f.reap \in Int
         /\ \A n \in DOMAIN f.profiles : f.profiles[n] \in ProfileType /\ f.profiles[n].auth \in Auths \cup {Nil}
<1>1. IsFile(f)
  BY PolicyInputs
<1>2. \A p \in ProfileType : p.auth \in Auths \cup {Nil}
  BY DEF ProfileType
<1>3. QED
  BY <1>1, <1>2 DEF IsFile

\* Everything about a sandbox is a function of the accepted profile that it was
\* created under.
Derived ==
  /\ labels # Nil =>
       /\ Validate(made)
       /\ labels = BuildLabels(made) /\ host = BuildLimits(made)
  /\ handle # Nil =>
       /\ handle.default = CommandTimeouts(made).default
       /\ handle.max = CommandTimeouts(made).max

\* What the loop has gone through is accepted, and has at most one credential.
Checked ==
  /\ phase \in {"profiles", "serving"} =>
       /\ todo \subseteq DOMAIN file.profiles
       /\ \A n \in DOMAIN file.profiles \ todo :
            Validate(file.profiles[n]) /\ file.profiles[n].auth \in {Nil, auth}
  /\ phase = "serving" => todo = {}

\* The inductive invariant.
IInv == TypeOK /\ Derived /\ Checked /\ CommandsBounded /\ LoginCommon

LEMMA PolicyInit == Init => IInv
BY DEF Init, IInv, TypeOK, Derived, Checked, CommandsBounded, LoginCommon

\* Steps that leave the sandbox and its commands alone.
LEMMA SandboxAlone ==
  ASSUME Derived, CommandsBounded, UNCHANGED <<createVars, commandVars>>
  PROVE  Derived' /\ CommandsBounded'
BY DEF Derived, CommandsBounded, createVars, commandVars

\* Steps that leave the configuration alone.
LEMMA ConfigAlone ==
  ASSUME Checked, LoginCommon, UNCHANGED configVars
  PROVE  Checked' /\ LoginCommon'
BY DEF Checked, LoginCommon, configVars

LEMMA PolicyStep == IInv /\ [Next]_vars => IInv'
<1> SUFFICES ASSUME IInv, [Next]_vars PROVE IInv'
  OBVIOUS
<1>0. TypeOK /\ Derived /\ Checked /\ CommandsBounded /\ LoginCommon /\ file \in Files
  BY DEF IInv, TypeOK
<1>1. CASE Load
  <2>1. Derived' /\ CommandsBounded'
    BY <1>0, <1>1, SandboxAlone DEF Load
  <2>2. Checked' /\ LoginCommon'
    BY <1>1 DEF Load, Checked, LoginCommon
  <2>3. DOMAIN file.profiles \subseteq Names /\ file.reap \in Int
    BY <1>0, FileProfiles
  <2>4. Or(file.reap, DefaultReapInterval) \in Nat /\ Or(file.reap, DefaultReapInterval) > 0
    BY <2>3, PolicyDefaults DEF Or, Positive
  <2>5. TypeOK'
    BY <1>0, <1>1, <2>3, <2>4 DEF Load, TypeOK, createVars, commandVars
  <2>6. QED
    BY <2>1, <2>2, <2>5 DEF IInv
<1>2. ASSUME NEW n \in Names, ValidateProfile(n)
      PROVE  IInv'
  <2>1. Derived' /\ CommandsBounded'
    BY <1>0, <1>2, SandboxAlone DEF ValidateProfile
  <2>2. n \in DOMAIN file.profiles /\ file.profiles[n].auth \in Auths \cup {Nil}
    BY <1>0, <1>2, FileProfiles DEF ValidateProfile, Checked
  <2>3. TypeOK'
    BY <1>0, <1>2, <2>2 DEF ValidateProfile, TypeOK, createVars, commandVars
  <2>4. LoginCommon'
    BY <1>2 DEF ValidateProfile, LoginCommon
  <2>5. Checked'
    <3>1. CASE Validate(file.profiles[n]) /\ SameAuth(file.profiles[n], auth)
      <4>1. /\ todo' = todo \ {n} /\ file' = file /\ phase' = "profiles"
            /\ auth' = IF auth = Nil THEN file.profiles[n].auth ELSE auth
        BY <1>2, <3>1 DEF ValidateProfile
      <4>2. \A k \in DOMAIN file.profiles \ todo : Validate(file.profiles[k]) /\ file.profiles[k].auth \in {Nil, auth}
        BY <1>0, <1>2 DEF Checked, ValidateProfile
      <4>3. file.profiles[n].auth \in {Nil, auth'} /\ auth \in {Nil, auth'}
        BY <3>1, <4>1 DEF SameAuth
      <4>4. \A k \in DOMAIN file.profiles \ todo' :
              Validate(file.profiles[k]) /\ file.profiles[k].auth \in {Nil, auth'}
        BY <3>1, <4>1, <4>2, <4>3
      <4>5. todo' \subseteq DOMAIN file.profiles
        BY <1>0, <1>2, <4>1 DEF Checked, ValidateProfile
      <4>6. QED
        BY <4>1, <4>4, <4>5 DEF Checked
    <3>2. CASE ~(Validate(file.profiles[n]) /\ SameAuth(file.profiles[n], auth))
      BY <1>2, <3>2 DEF ValidateProfile, Checked
    <3>3. QED
      BY <3>1, <3>2
  <2>6. QED
    BY <2>1, <2>3, <2>4, <2>5 DEF IInv
<1>3. CASE Serve
  <2>1. Derived' /\ CommandsBounded'
    BY <1>0, <1>3, SandboxAlone DEF Serve
  <2>2. \A n \in DOMAIN file.profiles : file.profiles[n].auth \in Auths \cup {Nil}
    BY <1>0, FileProfiles
  <2>3. login' \in Auths \cup {Nil}
    BY <1>3, <2>2 DEF Serve
  <2>4. TypeOK'
    BY <1>0, <1>3, <2>3 DEF Serve, TypeOK, createVars, commandVars
  <2>5. Checked'
    BY <1>0, <1>3 DEF Serve, Checked
  <2>6. \A n \in DOMAIN file.profiles : file.profiles[n].auth \in {Nil, auth}
    BY <1>0, <1>3 DEF Serve, Checked
  <2>7. LoginCommon'
    BY <1>3, <2>6 DEF Serve, LoginCommon
  <2>8. QED
    BY <2>1, <2>4, <2>5, <2>7 DEF IInv
<1>4. CASE Restart
  <2>1. file' \in Files
    BY <1>0, <1>4, PolicyInputs DEF Restart
  <2>2. TypeOK'
    BY <1>0, <1>4, <2>1 DEF Restart, TypeOK, createVars
  <2>3. Derived' /\ CommandsBounded'
    BY <1>0, <1>4 DEF Restart, Derived, CommandsBounded, createVars
  <2>4. Checked' /\ LoginCommon'
    BY <1>4 DEF Restart, Checked, LoginCommon
  <2>5. QED
    BY <2>2, <2>3, <2>4 DEF IInv
<1>5. ASSUME NEW n \in Names, NEW o \in Requests, Create(n, o)
      PROVE  IInv'
  <2>1. Checked' /\ LoginCommon'
    BY <1>0, <1>5, ConfigAlone DEF Create
  <2>2. made' \in ProfileType /\ made' = file.profiles[n]
    BY <1>0, <1>5, FileProfiles DEF Create
  <2>3. Validate(made')
    BY <1>0, <1>5, <2>2 DEF Create, Checked
  <2>4. /\ labels'.default.text = CommandTimeouts(made').default
        /\ labels'.max.text = CommandTimeouts(made').max
        /\ labels'.idle.text = Lifetime(made').idle
        /\ labels'.maxAge.text = Lifetime(made').maxAge
    BY <1>5, <2>2 DEF Create, BuildLabels, Format
  <2>5. /\ host'.memory = Resources(made').memory
        /\ host'.scratch = Resources(made').disk \div 2
        /\ host'.pids = Resources(made').procs
    BY <1>5, <2>2 DEF Create, BuildLimits
  <2>6. host'.memory \in Int /\ host'.scratch \in Int /\ host'.pids \in Int
    BY <2>2, <2>5, ResolvedTypes DEF Positive
  <2>7. labels = Nil /\ handle = Nil /\ timeout = Nil
    BY <1>0, <1>5 DEF Create, TypeOK
  <2>8. TypeOK'
    <3>1. /\ labels'.default.text \in Positive /\ labels'.max.text \in Positive
          /\ labels'.idle.text \in Int /\ labels'.maxAge.text \in Int
      BY <2>2, <2>4, ResolvedTypes
    <3>2. QED
      BY <1>0, <1>5, <2>2, <2>6, <2>7, <3>1 DEF Create, TypeOK, configVars, commandVars
  <2>9. Derived'
    BY <1>5, <2>2, <2>3, <2>7 DEF Create, Derived, commandVars
  <2>10. CommandsBounded'
    BY <1>5, <2>7 DEF Create, CommandsBounded, commandVars
  <2>11. QED
    BY <2>1, <2>8, <2>9, <2>10 DEF IInv
<1>6. CASE Open
  <2>1. Checked' /\ LoginCommon'
    BY <1>0, <1>6, ConfigAlone DEF Open
  <2>2. labels # Nil /\ labels = BuildLabels(made) /\ made \in ProfileType
    BY <1>0, <1>6 DEF Open, TypeOK, Derived
  <2>3. /\ Parse(labels.default) = CommandTimeouts(made).default
        /\ Parse(labels.max) = CommandTimeouts(made).max
    BY <2>2 DEF BuildLabels, Format, Parse
  <2>4. CommandTimeouts(made).default \in Positive /\ CommandTimeouts(made).max \in Positive
    BY <2>2, ResolvedTypes
  <2>5. /\ handle'.default = CommandTimeouts(made).default
        /\ handle'.max = CommandTimeouts(made).max
    BY <1>6, <2>3, <2>4 DEF Open, ParseDurationLabel, Or, Positive
  <2>6. TypeOK'
    BY <1>0, <1>6, <2>2, <2>4, <2>5 DEF Open, TypeOK, configVars, createVars
  <2>7. Derived'
    BY <1>0, <1>6, <2>5 DEF Open, Derived, createVars
  <2>8. CommandsBounded'
    BY <1>0, <1>6 DEF Open, CommandsBounded, createVars
  <2>9. QED
    BY <2>1, <2>6, <2>7, <2>8 DEF IInv
<1>7. ASSUME NEW t \in Timeouts, Exec(t)
      PROVE  IInv'
  <2>1. Checked' /\ LoginCommon'
    BY <1>0, <1>7, ConfigAlone DEF Exec
  <2>2. t \in Int
    BY PolicyInputs
  <2>3. handle # Nil /\ labels # Nil /\ made \in ProfileType
        /\ handle.default \in Positive /\ handle.max \in Positive
    BY <1>0, <1>7 DEF Exec, TypeOK
  <2>4. handle.max = Or(made.max, MaxCommandTimeout)
    BY <1>0, <2>3, ResolvedTypes DEF Derived
  <2>5. /\ timeout' \in Positive /\ timeout' <= handle.max
        /\ t > 0 => timeout' <= t
    BY <1>7, <2>2, <2>3, Resolved DEF Exec
  <2>6. TypeOK'
    BY <1>0, <1>7, <2>2, <2>3, <2>5 DEF Exec, TypeOK, configVars, createVars
  <2>7. Derived'
    BY <1>0, <1>7 DEF Exec, Derived, createVars
  <2>8. CommandsBounded'
    BY <1>7, <2>4, <2>5 DEF Exec, CommandsBounded, createVars
  <2>9. QED
    BY <2>1, <2>6, <2>7, <2>8 DEF IInv
<1>8. CASE UNCHANGED vars
  <2>1. Derived' /\ CommandsBounded' /\ Checked' /\ LoginCommon'
    BY <1>0, <1>8, SandboxAlone, ConfigAlone DEF vars
  <2>2. TypeOK'
    BY <1>0, <1>8 DEF vars, configVars, createVars, commandVars, TypeOK
  <2>3. QED
    BY <2>1, <2>2 DEF IInv
<1>9. QED
  BY <1>1, <1>2, <1>3, <1>4, <1>5, <1>6, <1>7, <1>8 DEF Next

LEMMA PolicyInvariant == Spec => []IInv
BY PolicyInit, PolicyStep, PTL DEF Spec

(***************************************************************************)
(* The state of the pipeline stays well typed; in particular the timeouts   *)
(* in the labels and in every handle are positive, and so is the reaper's   *)
(* interval.                                                                *)
(***************************************************************************)
THEOREM PolicyTyped == Spec => []TypeOK
<1>1. IInv => TypeOK
  BY DEF IInv
<1>2. QED
  BY PolicyInvariant, <1>1, PTL

(***************************************************************************)
(* For any files and any positive defaults, the reaper finds both bounds of *)
(* every sandbox enabled (config.go:199-209).                               *)
(***************************************************************************)
THEOREM LifetimesBounded == Spec => []LifetimeBounded
<1>1. IInv => LifetimeBounded
  <2> SUFFICES ASSUME IInv, labels # Nil
               PROVE  /\ ParseSignedDurationLabel(labels.idle) > 0
                      /\ ParseSignedDurationLabel(labels.maxAge) > 0
    BY DEF LifetimeBounded
  <2>1. made \in ProfileType /\ Validate(made) /\ labels = BuildLabels(made)
    BY DEF IInv, TypeOK, Derived
  <2>2. /\ ParseSignedDurationLabel(labels.idle) = Lifetime(made).idle
        /\ ParseSignedDurationLabel(labels.maxAge) = Lifetime(made).maxAge
    BY <2>1 DEF BuildLabels, ParseSignedDurationLabel, Parse, Format
  <2>3. QED
    BY <2>1, <2>2, AcceptedLifetime
<1>2. QED
  BY PolicyInvariant, <1>1, PTL

(***************************************************************************)
(* For any sizes, also those that overflow, every sandbox has limits, and   *)
(* its scratch space fits its memory.  That a MiB is more than one byte and *)
(* divides the range of an int64 keeps the half of a wrapped size positive. *)
(***************************************************************************)
THEOREM ResourcesStayBounded == Spec => []ResourcesBounded
<1>1. IInv => ResourcesBounded
  <2> SUFFICES ASSUME IInv, labels # Nil
               PROVE  /\ host.memory > 0 /\ host.scratch > 0 /\ host.pids > 0
                      /\ 2 * host.scratch <= host.memory
    BY DEF ResourcesBounded
  <2>1. made \in ProfileType /\ Validate(made) /\ host = BuildLimits(made)
    BY DEF IInv, TypeOK, Derived
  <2>2. /\ host.memory = Resources(made).memory
        /\ host.scratch = Resources(made).disk \div 2
        /\ host.pids = Resources(made).procs
    BY <2>1 DEF BuildLimits
  <2>3. Resources(made).disk <= Resources(made).memory
    BY <2>1 DEF Validate, ValidSpec
  <2>4. /\ Resources(made).memory \in Nat \ {0} /\ Resources(made).procs \in Nat \ {0}
        /\ Resources(made).disk \in Nat /\ Resources(made).disk > 1
    BY <2>1, ResolvedTypes DEF Positive
  <2>5. QED
    BY <2>2, <2>3, <2>4
<1>2. QED
  BY PolicyInvariant, <1>1, PTL

(***************************************************************************)
(* For any files and requests, and whatever restarts come between, a        *)
(* command's timeout is within the maximum of its sandbox's profile and     *)
(* within what it asked for (exec.go:41).                                   *)
(***************************************************************************)
THEOREM CommandsStayBounded == Spec => []CommandsBounded
<1>1. IInv => CommandsBounded
  BY DEF IInv
<1>2. QED
  BY PolicyInvariant, <1>1, PTL

(***************************************************************************)
(* For any number of profiles and in any order of the two loops, the daemon *)
(* logs in with the credential of every profile that names one              *)
(* (config.go:142-150).                                                     *)
(***************************************************************************)
THEOREM LoginStaysCommon == Spec => []LoginCommon
<1>1. IInv => LoginCommon
  BY DEF IInv
<1>2. QED
  BY PolicyInvariant, <1>1, PTL

(***************************************************************************)
(* What the daemon reports of an unchanged profile is what the reaper goes  *)
(* by, with zero read as the library's default (dial.go:75-88).             *)
(***************************************************************************)
THEOREM ReportsStayTrue == Spec => []ReportedInForce
<1>1. IInv => ReportedInForce
  <2> SUFFICES ASSUME IInv, labels # Nil, file.profiles[name] = made
               PROVE  /\ ParseSignedDurationLabel(labels.idle) = Or(ProfileInfo(made).idle, DefaultIdleTimeout)
                      /\ ParseSignedDurationLabel(labels.maxAge) = Or(ProfileInfo(made).maxAge, DefaultMaxAge)
    BY DEF ReportedInForce
  <2>1. made \in ProfileType /\ Validate(made) /\ labels = BuildLabels(made)
    BY DEF IInv, TypeOK, Derived
  <2>2. /\ ParseSignedDurationLabel(labels.idle) = Lifetime(made).idle
        /\ ParseSignedDurationLabel(labels.maxAge) = Lifetime(made).maxAge
    BY <2>1 DEF BuildLabels, ParseSignedDurationLabel, Parse, Format
  <2>3. ProfileInfo(made).idle = made.idle /\ ProfileInfo(made).maxAge = made.maxAge
    BY DEF ProfileInfo
  <2>4. QED
    BY <2>1, <2>2, <2>3, AcceptedLifetime
<1>2. QED
  BY PolicyInvariant, <1>1, PTL
=============================================================================
