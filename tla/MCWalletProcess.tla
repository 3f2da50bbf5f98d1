-------------------------- MODULE MCWalletProcess ---------------------------
(***************************************************************************)
(* The life of the process for TLC: wallets that share the tables, a       *)
(* handle that closes with its subscriptions, and the initializations.     *)
(* They share no state, so a behaviour runs one of them, its focus, and    *)
(* leaves the others where they start.                                     *)
(***************************************************************************)
EXTENDS WalletProcess, TLC

VARIABLE focus    \* the model that runs

handleVars == <<terminal, closed, disposed, registered, generation, sub,
                closer, failures>>
runtimeVars == <<lifecycle, attempts, native, caller>>

Named(name) == [name |-> name, size |-> 0]
In(op, seed, key, path, type) ==
  [op |-> op, seed |-> seed, key |-> key, path |-> path, type |-> type]

\* Every table type, each refusal once, and a recovery from a seed.
MCInput ==
  {In(op, FALSE, FALSE, TRUE, t) : op \in {"open", "update"},
     t \in {Named("l1Low"), Named("l1Medium"), Named("l1Full")}
             \cup [name : {"custom"}, size : Custom]}
    \cup {In("create", TRUE, FALSE, TRUE, Named("l1Low")),
          In("create", TRUE, TRUE, TRUE, Named("l1Low")),
          In("create", FALSE, TRUE, FALSE, Named("l1Low"))}

Symmetry == Permutations(Call) \cup Permutations(Arc) \cup Permutations(Configuration)

RunInit ==
  /\ focus \in {"tables", "handle", "runtime"}
  /\ Init /\ Handle!Init /\ Runtime!Init
  /\ focus # "runtime" => \A s \in DOMAIN native : native[s] = None

\* A closed handle may rest; the other two always have a step.
RunNext ==
  \/ focus = "tables" /\ Next /\ UNCHANGED <<focus, handleVars, runtimeVars>>
  \/ focus = "handle" /\ Handle!Next /\ UNCHANGED <<focus, vars, runtimeVars>>
  \/ focus = "handle" /\ UNCHANGED <<focus, vars, handleVars, runtimeVars>>
  \/ focus = "runtime" /\ Runtime!Next /\ UNCHANGED <<focus, vars, handleVars>>

RunSpec == RunInit /\ [][RunNext]_<<focus, vars, handleVars, runtimeVars>>
=============================================================================
