-------------------------------- MODULE Script --------------------------------
(***************************************************************************)
(* The scripts of reports (src/mod/rtk): a compiler that turns the parse   *)
(* tree of a formula into the code of a stack machine (rtkcompiler.cpp),   *)
(* and the machine (rtkvmachine.cpp), whose stacks, globals and functions  *)
(* are shared by all the calls of a context.  The code that is compiled is *)
(* compared with Run, which gives the meaning of the parse tree without    *)
(* stacks or jumps.                                                        *)
(* A parse tree is a tuple: its kind and its children.  Numbers are        *)
(* integers, and indexed variables and report properties are left out.     *)
(***************************************************************************)
EXTENDS Integers, Sequences, SequencesExt, Functions

CONSTANTS
  Scripts,    \* the scripts that are evaluated: sequences of statements
  Variables   \* the variables of them: those of Globals are shared by the frames

Abs(n) == IF n < 0 THEN -n ELSE n

Globals == Variables \cap {"$g"}

VARIABLE vm   \* the state of the machine

scriptVars == <<vm>>

\* Integer division, which goes towards zero.
Quotient(a, b) == IF a * b >= 0 THEN Abs(a) \div Abs(b) ELSE -(Abs(a) \div Abs(b))

\* What an operator makes of the two values on the top of the stack.
Apply(op, a, b) ==
  LET Truth(p) == IF p THEN 1 ELSE 0
  IN  CASE op = "+" -> a + b
        [] op = "-" -> a - b
        [] op = "*" -> a * b
        [] op = "/" -> Quotient(a, b)
        [] op = "%" -> a - b * Quotient(a, b)
        [] op = "<"  -> Truth(a < b)
        [] op = "<=" -> Truth(a <= b)
        [] op = ">"  -> Truth(a > b)
        [] op = ">=" -> Truth(a >= b)
        [] op = "==" -> Truth(a = b)
        [] op = "!=" -> Truth(a # b)
        [] op = "&&" -> Truth(a # 0 /\ b # 0)
        [] op = "||" -> Truth(a # 0 \/ b # 0)
        [] op = "neg" -> -a
        [] op = "!"  -> Truth(a = 0)

Unary == {"neg", "!"}

\* The functions of the library, which take their arguments as a sequence.
Library == [tostring |-> [n |-> 1, f |-> [s \in Seq(Int) |-> s[1]]],
            pow      |-> [n |-> 2, f |-> [s \in Seq(Int) |-> s[1] ^ s[2]]]]

------------------------------------------------------------------------------
(* The compiler                                                              *)

RECURSIVE CompileExpr(_), CompileCall(_, _), CompileStmt(_, _), CompileBlock(_, _)

\* Arguments are pushed from the last to the first.
CompileCall(f, args) ==
  FoldLeft(LAMBDA code, a : code \o CompileExpr(a) \o <<<<"push_param">>>>, <<>>, Reverse(args))
  \o <<<<"call", f>>>>

CompileExpr(e) ==
  CASE e[1] = "int"  -> <<<<"push", e[2]>>>>
    [] e[1] = "var"  -> <<<<"push_var", e[2]>>>>
    [] e[1] = "post" -> <<<<"push_var", e[2]>>, <<"inc_var", e[2]>>>>
    [] e[1] = "pre"  -> <<<<"inc_var", e[2]>>, <<"push_var", e[2]>>>>
    [] e[1] = "call" -> CompileCall(e[2], e[3]) \o <<<<"load_ret">>>>
    [] Len(e) = 2    -> CompileExpr(e[2]) \o <<<<"op", e[1]>>>>
    [] OTHER         -> CompileExpr(e[2]) \o CompileExpr(e[3]) \o <<<<"op", e[1]>>>>

\* The jumps of the breaks and continues of a loop, once its end is known.
Resolve(code, break, continue) ==
  [i \in DOMAIN code |->
     CASE code[i] = <<"break">>    -> <<"jmp", break>>
       [] code[i] = <<"continue">> -> <<"jmp", continue>>
       [] OTHER -> code[i]]

\* Mutant: nothing jumps over the else.
CompileIfFallingThrough(s, at) ==
  LET test == CompileExpr(s[2])
      then == CompileStmt(s[3], at + Len(test) + 1)
      over == at + Len(test) + 1 + Len(then)
  IN  test \o <<<<"jmp_false", over>>>> \o then
      \o IF Len(s) = 4 THEN CompileStmt(s[4], over) ELSE <<>>

CompileIf(s, at) ==
  LET test == CompileExpr(s[2])
      then == CompileStmt(s[3], at + Len(test) + 1)
      over == at + Len(test) + 1 + Len(then)
      else == CompileStmt(s[4], over + 1)
  IN  IF Len(s) = 3 THEN test \o <<<<"jmp_false", over>>>> \o then
      ELSE test \o <<<<"jmp_false", over + 1>>>> \o then
           \o <<<<"jmp", over + 1 + Len(else)>>>> \o else

CompileWhile(s, at) ==
  LET test == CompileExpr(s[2])
      body == CompileStmt(s[3], at + Len(test) + 1)
      end  == at + Len(test) + Len(body) + 2
  IN  test \o <<<<"jmp_false", end>>>> \o Resolve(body, end, at) \o <<<<"jmp", at>>>>

CompileFor(s, at) ==
  LET init == CompileStmt(s[2], at)
      test == CompileExpr(s[3])
      from == at + Len(init)
      body == CompileStmt(s[5], from + Len(test) + 1)
      next == from + Len(test) + 1 + Len(body)
      step == CompileStmt(s[4], next)
      end  == next + Len(step) + 1
  IN  init \o test \o <<<<"jmp_false", end>>>> \o Resolve(body, end, next) \o step
      \o <<<<"jmp", from>>>>

CompileFunction(s, at) ==
  LET pops == [i \in DOMAIN s[3] |-> <<"pop_param", s[3][i]>>]
      body == CompileBlock(s[4], at + 1 + Len(pops))
  IN  <<<<"decl_func", s[2], at + Len(pops) + Len(body) + 2>>>> \o pops \o body \o <<<<"return">>>>

CompileInc(s) == <<<<"inc_var", s[2]>>>>

CompileStmt(s, at) ==
  CASE s[1] = "block"    -> CompileBlock(s[2], at)
    [] s[1] = "if"       -> CompileIf(s, at)
    [] s[1] = "while"    -> CompileWhile(s, at)
    [] s[1] = "for"      -> CompileFor(s, at)
    [] s[1] = "function" -> CompileFunction(s, at)
    [] s[1] = "return"   -> CompileExpr(s[2]) \o <<<<"store_ret">>, <<"return">>>>
    [] s[1] = "="        -> CompileExpr(s[3]) \o <<<<"assign_var", s[2]>>>>
    [] s[1] = "asn"      -> CompileExpr(s[4]) \o <<<<"asn_var", s[2], s[3]>>>>
    [] s[1] = "++"       -> CompileInc(s)
    [] s[1] = "call"     -> CompileCall(s[2], s[3])
    [] OTHER             -> <<s>>   \* break and continue, which the loop resolves

CompileBlock(b, at) ==
  FoldLeft(LAMBDA code, s : code \o CompileStmt(s, at + Len(code)), <<>>, b)

------------------------------------------------------------------------------
(* The machine: one action for each kind of instruction                      *)

Zero(S) == [x \in S |-> 0]

\* context::eval of a script: it is compiled, and a frame is pushed for it.
InitScript ==
  \E s \in Scripts :
    vm = [script |-> s, code |-> CompileBlock(s, 1), pc |-> 1, frame |-> Zero(Variables),
          globals |-> Zero(Variables), stack |-> <<>>, params |-> <<>>, ret |-> 0,
          calls |-> <<>>, funcs |-> <<>>, state |-> "runs"]

Instr   == vm.code[vm.pc]
At(ops) == vm.state = "runs" /\ vm.pc \in DOMAIN vm.code /\ Instr[1] \in ops
Top     == Last(vm.stack)
Rest    == Front(vm.stack)
Value(x) == IF x \in Globals THEN vm.globals[x] ELSE vm.frame[x]

Assign(x, v, m) == IF x \in Globals THEN [m EXCEPT !.globals[x] = v] ELSE [m EXCEPT !.frame[x] = v]

PushValue ==
  /\ At({"push", "push_var", "load_ret"})
  /\ vm' = [vm EXCEPT !.pc = @ + 1,
              !.stack = Append(@, CASE Instr[1] = "push" -> Instr[2]
                                    [] Instr[1] = "push_var" -> Value(Instr[2])
                                    [] Instr[1] = "load_ret" -> vm.ret)]

Operate ==
  /\ At({"op"})
  /\ vm' = IF Instr[2] \in Unary
           THEN [vm EXCEPT !.pc = @ + 1, !.stack = Append(Rest, Apply(Instr[2], Top, 0))]
           ELSE IF Instr[2] = "/" /\ Top = 0 THEN [vm EXCEPT !.state = "error"]
           ELSE IF Instr[2] = "%" /\ Top = 0 THEN [vm EXCEPT !.state = "killed"]
           ELSE [vm EXCEPT !.pc = @ + 1,
                           !.stack = Append(Front(Rest), Apply(Instr[2], Last(Rest), Top))]

\* An assignment with an operator, as +=, does not look at the divisor.
StoreVariable ==
  \/ /\ At({"assign_var"})
     /\ vm' = Assign(Instr[2], Top, [vm EXCEPT !.pc = @ + 1, !.stack = Rest])
  \/ /\ At({"asn_var"})
     /\ vm' = IF Instr[2] \in {"/", "%"} /\ Top = 0 THEN [vm EXCEPT !.state = "killed"]
              ELSE Assign(Instr[3], Apply(Instr[2], Value(Instr[3]), Top),
                          [vm EXCEPT !.pc = @ + 1, !.stack = Rest])
  \/ /\ At({"inc_var"})
     /\ vm' = Assign(Instr[2], Value(Instr[2]) + 1, [vm EXCEPT !.pc = @ + 1])

Jump ==
  \/ At({"jmp"}) /\ vm' = [vm EXCEPT !.pc = Instr[2]]
  \/ At({"jmp_false"}) /\ vm' = [vm EXCEPT !.pc = IF Top = 0 THEN Instr[2] ELSE @ + 1, !.stack = Rest]

\* A parameter that was not given is empty.
PassParam ==
  \/ At({"push_param"}) /\ vm' = [vm EXCEPT !.pc = @ + 1, !.stack = Rest, !.params = Append(@, Top)]
  \/ /\ At({"pop_param"})
     /\ vm' = IF vm.params = <<>> THEN [vm EXCEPT !.pc = @ + 1, !.frame[Instr[2]] = 0]
              ELSE [vm EXCEPT !.pc = @ + 1, !.frame[Instr[2]] = Last(vm.params), !.params = Front(@)]

DeclareFunction ==
  /\ At({"decl_func"})
  /\ vm' = [vm EXCEPT !.pc = Instr[3], !.funcs = (Instr[2] :> vm.pc + 1) @@ @]

\* A function of the library reads as many arguments as it needs: it is undefined
\* what it reads when they are not there.  The stack of parameters is left empty.
CallLibrary ==
  /\ At({"call"}) /\ Instr[2] \in DOMAIN Library
  /\ LET entry == Library[Instr[2]]
         args  == Reverse(vm.params)
     IN  vm' = IF Len(args) < entry.n THEN [vm EXCEPT !.state = "undefined"]
               ELSE [vm EXCEPT !.pc = @ + 1, !.params = <<>>, !.ret = entry.f[args]]

\* A function of the script runs in a frame of its own.
CallFunction ==
  /\ At({"call"}) /\ Instr[2] \in DOMAIN vm.funcs
  /\ vm' = [vm EXCEPT !.pc = vm.funcs[Instr[2]], !.frame = Zero(Variables), !.ret = 0,
                      !.calls = Append(@, [pc |-> vm.pc + 1, frame |-> vm.frame])]

\* A call of a function that nobody has declared is logged, and its value is 0.
CallUnknown ==
  /\ At({"call"}) /\ Instr[2] \notin DOMAIN Library \cup DOMAIN vm.funcs
  /\ vm' = [vm EXCEPT !.pc = @ + 1, !.params = <<>>, !.ret = 0]

\* When it returns, the parameters that are left are dropped.
Return ==
  \/ At({"store_ret"}) /\ vm' = [vm EXCEPT !.pc = @ + 1, !.ret = Top, !.stack = Rest]
  \/ /\ At({"return"})
     /\ vm' = IF vm.calls = <<>> THEN [vm EXCEPT !.state = "done"]
              ELSE [vm EXCEPT !.pc = Last(vm.calls).pc, !.frame = Last(vm.calls).frame,
                              !.calls = Front(@), !.params = <<>>]

EndOfCode ==
  /\ vm.state = "runs" /\ vm.pc \notin DOMAIN vm.code
  /\ vm' = [vm EXCEPT !.state = "done"]

StepScript == PushValue \/ Operate \/ StoreVariable \/ Jump \/ PassParam \/ DeclareFunction
              \/ CallLibrary \/ CallFunction \/ CallUnknown \/ Return \/ EndOfCode

NextScript == StepScript \/ (vm.state # "runs" /\ UNCHANGED vm)
FairScript == WF_vm(StepScript)
SpecScript == InitScript /\ [][NextScript]_vm /\ FairScript

------------------------------------------------------------------------------
(* The meaning of a script                                                   *)

RECURSIVE Ev(_, _), Args(_, _), Do(_, _), Loop(_, _, _, _), DoAll(_, _)

Get(st, x) == IF x \in Globals THEN st.globals[x] ELSE st.frame[x]

\* The state after e, with its value in v.
Ev(e, st) ==
  IF st.flow = "error" THEN st ELSE
  CASE e[1] = "int"  -> [st EXCEPT !.v = e[2]]
    [] e[1] = "var"  -> [st EXCEPT !.v = Get(st, e[2])]
    [] e[1] = "post" -> [Assign(e[2], Get(st, e[2]) + 1, st) EXCEPT !.v = Get(st, e[2])]
    [] e[1] = "pre"  -> [Assign(e[2], Get(st, e[2]) + 1, st) EXCEPT !.v = Get(st, e[2]) + 1]
    [] e[1] \in Unary -> LET a == Ev(e[2], st) IN [a EXCEPT !.v = Apply(e[1], @, 0)]
    [] e[1] = "call" ->
         LET args == Args(e[3], st)
             fun  == st.funcs[e[2]]
             body == DoAll(fun[2], [args EXCEPT !.frame = [x \in Variables |->
                       IF x \in ToSet(fun[1]) THEN args.v[CHOOSE i \in DOMAIN fun[1] : fun[1][i] = x] ELSE 0]])
         IN  IF args.flow = "error" THEN args
             ELSE IF e[2] \notin DOMAIN Library \cup DOMAIN st.funcs THEN [args EXCEPT !.v = 0]
             ELSE IF e[2] \in DOMAIN Library THEN [args EXCEPT !.v = Library[e[2]].f[@]]
             ELSE [body EXCEPT !.frame = args.frame, !.flow = IF @ = "return" THEN "next" ELSE @]
    [] OTHER ->
         LET a == Ev(e[2], st)
             b == Ev(e[3], a)
         IN  IF b.flow = "error" THEN b
             ELSE IF e[1] = "/" /\ b.v = 0 THEN [b EXCEPT !.flow = "error"]
             ELSE [b EXCEPT !.v = Apply(e[1], a.v, b.v)]

\* The arguments, the last of which is evaluated first.
Args(args, st) ==
  IF args = <<>> THEN [st EXCEPT !.v = <<>>]
  ELSE LET last  == Ev(Last(args), st)
           first == Args(Front(args), last)
       IN  [first EXCEPT !.v = Append(@, last.v)]

Loop(test, step, body, st) ==
  LET t == Ev(test, st)
      b == Do(body, t)
  IN  IF t.flow = "error" \/ t.v = 0 THEN t
      ELSE CASE b.flow \in {"return", "error"} -> b
             [] b.flow = "break" -> [b EXCEPT !.flow = "next"]
             [] OTHER -> Loop(test, step, body, DoAll(step, [b EXCEPT !.flow = "next"]))

Do(s, st) ==
  CASE s[1] = "block"    -> DoAll(s[2], st)
    [] s[1] = "if"       -> LET t == Ev(s[2], st)
                            IN  IF t.flow = "error" THEN t
                                ELSE IF t.v # 0 THEN Do(s[3], t)
                                ELSE IF Len(s) = 4 THEN Do(s[4], t) ELSE t
    [] s[1] = "while"    -> Loop(s[2], <<>>, s[3], st)
    [] s[1] = "for"      -> Loop(s[3], <<s[4]>>, s[5], Do(s[2], st))
    [] s[1] = "function" -> [st EXCEPT !.funcs = (s[2] :> <<s[3], s[4]>>) @@ @]
    [] s[1] = "return"   -> LET a == Ev(s[2], st)
                            IN  IF a.flow = "error" THEN a ELSE [a EXCEPT !.flow = "return"]
    [] s[1] = "="        -> LET a == Ev(s[3], st)
                            IN  IF a.flow = "error" THEN a ELSE Assign(s[2], a.v, a)
    [] s[1] = "asn"      -> LET a == Ev(s[4], st)
                            IN  IF a.flow = "error" THEN a
                                ELSE Assign(s[3], Apply(s[2], Get(a, s[3]), a.v), a)
    [] s[1] = "++"       -> Assign(s[2], Get(st, s[2]) + 1, st)
    [] s[1] = "call"     -> Ev(s, st)
    [] OTHER             -> [st EXCEPT !.flow = s[1]]

DoAll(b, st) ==
  IF b = <<>> \/ st.flow # "next" THEN st ELSE DoAll(Tail(b), Do(b[1], st))

Run(s) == DoAll(s, [frame |-> Zero(Variables), globals |-> Zero(Variables), v |-> 0,
                    funcs |-> <<>>, flow |-> "next"])

------------------------------------------------------------------------------
(* Properties                                                                *)

\* What the machine returns, and what it leaves in the variables, is what the script
\* says, for every script that returns something, and the stacks that all the scripts of a
\* report share are left empty; and it fails when the script divides by 0.
ScriptMeansWhatItSays ==
  vm.state # "runs" =>
    LET r == Run(vm.script)
    IN  /\ vm.state = IF r.flow = "error" THEN "error" ELSE "done"
        /\ vm.globals = r.globals
        /\ vm.state = "done" => /\ vm.ret = r.v /\ vm.frame = r.frame
                                 /\ vm.stack = <<>> /\ vm.params = <<>> /\ vm.calls = <<>>

\* The machine stops, since every script of the run does.
ScriptEnds == <>(vm.state # "runs")

===============================================================================
