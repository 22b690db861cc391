------------------------------ MODULE MCPolicy ------------------------------
EXTENDS Policy, TLC

\* Unset, negative, ordinary, and for sizes the ones that overflow: with a MiB
\* of 4 and 64 values, 8 is the smallest size that wraps to a negative one and
\* 16 wraps to zero.  The timeouts lie on both sides of the defaults.
AllProfiles ==
  [memory : {-1, 0, 1, 8, 16}, disk : {-1, 0, 1, 8}, procs : {-1, 0, 1},
   idle : {-1, 0, 1}, maxAge : {-1, 0, 1},
   default : {-1, 0, 1, 7}, max : {-1, 0, 1, 9},
   egress : {"", "unrestricted", "other"}, user : {"", "numeric", "root"}, auth : {Nil}]

Unset ==
  [memory |-> 0, disk |-> 0, procs |-> 0, idle |-> 0, maxAge |-> 0, default |-> 0, max |-> 0,
   egress |-> "", user |-> "", auth |-> Nil]

\* A whole listen block, and it with one thing amiss.
Listens ==
  LET whole == [address |-> "host:port", cert |-> TRUE, key |-> TRUE, ca |-> TRUE, cns |-> {"name"}]
  IN  {whole} \cup {[whole EXCEPT !.address = a] : a \in {"", "host", "host:", "host:0"}}
              \cup {[whole EXCEPT !.cert = FALSE], [whole EXCEPT !.key = FALSE], [whole EXCEPT !.ca = FALSE]}
              \cup {[whole EXCEPT !.cns = ns] : ns \in {{}, {"", "name"}}}

\* Every profile by itself; and every head and every combination of credentials
\* with profiles that leave everything unset.
AllFiles ==
  [socket : {TRUE}, listen : {Nil}, reap : {0}, profiles : [{"a"} -> AllProfiles]]
  \cup
  [socket : BOOLEAN, listen : Listens \cup {Nil}, reap : {-1, 0, 1},
   profiles : UNION {[ns -> {[Unset EXCEPT !.auth = a] : a \in Auths \cup {Nil}}] : ns \in SUBSET Names}]

\* Other bounds under the same name, another profile, and a refused file.
OtherFiles ==
  [socket : {TRUE}, listen : {Nil}, reap : {0},
   profiles : {("a" :> [Unset EXCEPT !.idle = 1, !.max = 1]), ("b" :> Unset),
               ("a" :> [Unset EXCEPT !.max = 9]), ("a" :> [Unset EXCEPT !.idle = -1])}]

NoOptions ==
  [memory |-> 0, disk |-> 0, procs |-> 0, idle |-> 0, maxAge |-> 0, default |-> 0, max |-> 0]

\* No option, and one option: its default, another value, a disabled bound.
OneOption ==
  {NoOptions} \cup {[NoOptions EXCEPT !.memory = v] : v \in {8, 5}}
              \cup {[NoOptions EXCEPT !.idle = v] : v \in {3, -1}}
              \cup {[NoOptions EXCEPT !.max = v] : v \in {5, 4}}

\* None given, within every maximum, above every maximum.
AskedTimeouts == {-1, 1, 12}
=============================================================================
