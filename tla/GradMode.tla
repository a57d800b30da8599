------------------------------- MODULE GradMode -------------------------------
(***************************************************************************)
(* src/grad_mode.rs and the context managers of src/python_grad_mode.rs:   *)
(* whether a thread records operations for autograd.  Each thread has a    *)
(* base mode and a stack of scopes, named by tokens.  A scope is closed by *)
(* its token, wherever it is in the stack: Rust guards may be dropped in   *)
(* any order, a generator may leave a scope open over a yield, and one     *)
(* context manager may be entered by several threads, and again by a       *)
(* thread that is inside it.                                               *)
(***************************************************************************)
EXTENDS Integers, Sequences, SequencesExt, FiniteSetsExt, TLC

CONSTANTS Threads,
          Contexts,      \* instances of no_grad and enable_grad, shared by the threads
          Enables,       \* Enables[c]: c is an enable_grad
          Setters,       \* instances of the class set_grad_enabled
          Scopes         \* bound: how many scopes each thread may open

ASSUME GradModeConstants == Enables \in [Contexts -> BOOLEAN] /\ Scopes \in [Threads -> Nat]

VARIABLES base,          \* BASE_GRAD_MODE_ENABLED of each thread
          stack,         \* GRAD_MODE_STACK of each thread
          token,         \* NEXT_GRAD_MODE_TOKEN of each thread
          guards,        \* the tokens of the NoGradGuards and EnableGradGuards alive on each thread
          tokens,        \* tokens_by_thread of each context manager
          setters,       \* mode and prev of the setters that exist
          opened         \* ghost: what each open scope found when it was opened

gradVars == <<base, stack, token, guards, tokens, setters, opened>>

is_grad_enabled(t) == IF stack[t] = <<>> THEN base[t] ELSE Last(stack[t]).enabled

\* The token of the newest open scope of a thread, or -1 for none.
Newest(t) == IF stack[t] = <<>> THEN -1 ELSE Last(stack[t]).token

GradInit ==
  /\ base = [t \in Threads |-> TRUE]
  /\ stack = [t \in Threads |-> <<>>]
  /\ token = [t \in Threads |-> 0]
  /\ guards = [t \in Threads |-> {}]
  /\ tokens = [c \in Contexts |-> [t \in Threads |-> <<>>]]
  /\ setters = [s \in {} |-> TRUE]
  /\ opened = [t \in Threads |-> [k \in {} |-> TRUE]]

---------------------------------------------------------------------------
(* The core: enter, exit and set.                                          *)

enter_grad_mode(t, enabled) ==
  /\ token[t] < Scopes[t]
  /\ token' = [token EXCEPT ![t] = @ + 1]
  /\ stack' = [stack EXCEPT ![t] = Append(@, [token |-> token[t], enabled |-> enabled])]
  /\ opened' = [opened EXCEPT ![t] =
                  [k \in DOMAIN @ \cup {token[t]} |->
                     IF k = token[t] THEN [mode |-> is_grad_enabled(t), over |-> Newest(t)]
                     ELSE @[k]]]

\* Without the last entry that has this token.  Were there none, the call
\* would panic and leave the stack as it is: see ScopesAreOwned.
Without(entries, k) ==
  LET positions == {i \in DOMAIN entries : entries[i].token = k}
  IN  IF positions = {} THEN entries ELSE RemoveAt(entries, Max(positions))

exit_grad_mode(t, k) ==
  /\ stack' = [stack EXCEPT ![t] = Without(@, k)]
  /\ opened' = [opened EXCEPT ![t] = [o \in DOMAIN @ \ {k} |-> @[o]]]

\* set_grad_enabled overwrites the mode of the newest scope, or the base mode.
Overwritten(entries, enabled) ==
  IF entries = <<>> THEN entries ELSE [entries EXCEPT ![Len(entries)].enabled = enabled]

\* Mutant: the mode set within a scope stays after it.
sets_base_too(t, enabled) ==
  /\ stack' = [stack EXCEPT ![t] = Overwritten(@, enabled)]
  /\ base' = [base EXCEPT ![t] = enabled]

set_grad_enabled(t, enabled) ==
  /\ stack' = [stack EXCEPT ![t] = Overwritten(@, enabled)]
  /\ base' = IF stack[t] = <<>> THEN [base EXCEPT ![t] = enabled] ELSE base

---------------------------------------------------------------------------
(* Rust guards, which decorated functions and generators also amount to: a *)
(* fresh context around each call or each resumption.                      *)

NewGuard(t, enabled) ==
  /\ enter_grad_mode(t, enabled)
  /\ guards' = [guards EXCEPT ![t] = @ \cup {token[t]}]
  /\ UNCHANGED <<base, tokens, setters>>

DropGuard(t, k) ==
  /\ k \in guards[t]
  /\ exit_grad_mode(t, k)
  /\ guards' = [guards EXCEPT ![t] = @ \ {k}]
  /\ UNCHANGED <<base, token, tokens, setters>>

(* Context managers: __enter__ and __exit__, matched within a thread.      *)

push_context_token(c, t, k) == tokens' = [tokens EXCEPT ![c][t] = Append(@, k)]

\* Mutant: the tokens are kept in one list for all threads.
AnyThread(t) == Threads

\* The threads whose tokens a call by t may pop.
Own(t) == {t}

pop_context_token(c, t) ==
  CHOOSE u \in Own(t) : tokens[c][u] # <<>>

EnterContext(t, c) ==
  /\ enter_grad_mode(t, Enables[c])
  /\ push_context_token(c, t, token[t])
  /\ UNCHANGED <<base, guards, setters>>

\* Without a token of this thread __exit__ does nothing: a stutter.
ExitContext(t, c) ==
  /\ \E u \in Own(t) : tokens[c][u] # <<>>
  /\ LET u == pop_context_token(c, t)
     IN  /\ exit_grad_mode(t, Last(tokens[c][u]))
         /\ tokens' = [tokens EXCEPT ![c][u] = Front(@)]
  /\ UNCHANGED <<base, token, guards, setters>>

(* The class set_grad_enabled, whose construction already sets the mode.   *)

NewSetter(t, s, mode) ==
  /\ s \notin DOMAIN setters
  /\ setters' = [r \in DOMAIN setters \cup {s} |->
                   IF r = s THEN [mode |-> mode, prev |-> is_grad_enabled(t)] ELSE setters[r]]
  /\ set_grad_enabled(t, mode)
  /\ UNCHANGED <<token, guards, tokens, opened>>

\* __enter__ sets the mode; __exit__, and __call__ before it decorates, set
\* what the constructing thread had.
UseSetter(t, s, mode) ==
  /\ s \in DOMAIN setters
  /\ mode \in {setters[s].mode, setters[s].prev}
  /\ set_grad_enabled(t, mode)
  /\ UNCHANGED <<token, guards, tokens, setters, opened>>

GradStep(t) ==
  \/ \E enabled \in BOOLEAN : NewGuard(t, enabled)
  \/ \E k \in guards[t] : DropGuard(t, k)
  \/ \E c \in Contexts : EnterContext(t, c) \/ ExitContext(t, c)
  \/ \E s \in Setters, mode \in BOOLEAN : NewSetter(t, s, mode) \/ UseSetter(t, s, mode)

---------------------------------------------------------------------------
(* Properties.                                                             *)

\* The tokens of t that somebody holds and will exit with.
Held(t) == guards[t] \cup UNION {ToSet(tokens[c][t]) : c \in Contexts}

\* The scopes open on a thread are those its guards and the context managers
\* it is inside of will close, each of them once: no exit panics in
\* exit_grad_mode for want of an entry, whatever threads share a context
\* manager, and no scope stays open that nobody can close.
ScopesAreOwned ==
  \A t \in Threads :
    /\ {stack[t][i].token : i \in DOMAIN stack[t]} = Held(t)
    /\ Len(stack[t]) = Cardinality(Held(t))
    /\ \A c, d \in Contexts :
         /\ ToSet(tokens[c][t]) \cap guards[t] = {}
         /\ c # d => ToSet(tokens[c][t]) \cap ToSet(tokens[d][t]) = {}
         /\ IsInjective(tokens[c][t])

\* Closing the newest scope restores the mode from before it was opened, also
\* after set_grad_enabled was called inside of it, if the scope it was opened
\* in has not been closed before it; closing any other scope changes nothing.
ClosingRestores ==
  [][\A t \in Threads : \A k \in DOMAIN opened[t] \ DOMAIN opened'[t] :
       IF k # Newest(t) THEN is_grad_enabled(t)' = is_grad_enabled(t)
       ELSE Newest(t)' = opened[t][k].over => is_grad_enabled(t)' = opened[t][k].mode]_gradVars
=============================================================================
