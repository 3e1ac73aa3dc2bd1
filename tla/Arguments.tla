------------------------------ MODULE Arguments ------------------------------
(***************************************************************************)
(* How the bytes of a moc, a motion, an expression, physics or a pose get  *)
(* from a Lua argument to the load that parses them: argToData,            *)
(* loadFileData and getLoveData on the Lua stack, the functions that call  *)
(* them, and the list of initializeEyeBlink.  The load works on a bare     *)
(* pointer while Lua runs and collects garbage, so the value the bytes     *)
(* belong to has to stay on the stack.                                     *)
(*                                                                         *)
(* Abstractions: a value of the stack is named by what it is.  What a step *)
(* pushes and pops itself appears only where it decides something.  The    *)
(* sections of loadModel after its constructor are Loader's.               *)
(***************************************************************************)
EXTENDS Integers, Sequences

CONSTANTS
    Extras,         \* what a game may pass after the arguments: sequences
    MaxList         \* the length of a list of eye parameters (bound)

ASSUME ListAssumption == MaxList \in Nat

\* The functions that take data, and the arguments before the data
Lead ==
    [loadMocFile    |-> <<>>,
     loadModel      |-> <<>>,
     loadPhysics    |-> <<"self">>,
     loadPose       |-> <<"self">>,
     loadExpression |-> <<"self", "name">>,
     loadMotion     |-> <<"self", "name", "fadeIn", "fadeOut">>]
Functions == DOMAIN Lead
Constructors == {"loadMocFile", "loadModel"}

\* "long" has 512 bytes or more, "lines" a byte 10 or 26; "plain" is a userdata
\* without typeOf, a file of io.open, say; "love" is LOVE's Data or File.
Strings == {"long", "lines", "path"}
Values == Strings \cup {"plain", "love", "table"}

\* The game may pass numbers, too.
ASSUME ExtrasAssumption == Extras \subseteq Seq(Values \cup {"number"})

None == "none"

VARIABLES
    call,       \* the function and the data argument of the call
    stage,      \* where the call is, "idle" between calls
    stack,      \* the Lua stack of the call
    alive,      \* the values that are not collected
    buffer,     \* the value the pointer points into
    parsed,     \* the values whose bytes the call has parsed, in order
    outcome,    \* of the last call: "returned", "failed" or "crashed"
    attempted   \* a constructor has looked for glBlendFuncSeparate (static)

vars == <<call, stage, stack, alive, buffer, parsed, outcome, attempted>>

Idle == [function |-> None, value |-> None, args |-> <<>>, list |-> 0]

Init ==
    /\ call = Idle /\ stage = "idle" /\ stack = <<>> /\ alive = {}
    /\ buffer = None /\ parsed = <<>> /\ outcome = None
    /\ attempted = FALSE

At(s) == stage = s
Go(s) == stage' = s /\ UNCHANGED <<call, outcome>>

Top == stack[Len(stack)]
Pop(n) == SubSeq(stack, 1, Len(stack) - n)
Held(s) == {s[i] : i \in DOMAIN s}

End(how) ==
    /\ stage' = "idle" /\ outcome' = how
    /\ stack' = <<>> /\ buffer' = None
    /\ UNCHANGED <<call, alive>>

\* An error raised by the code or by what it calls
Fail == End("failed") /\ UNCHANGED <<parsed, attempted>>

-----------------------------------------------------------------------------

Begin(f, v, extra) ==
    /\ At("idle") /\ outcome # "crashed"
    /\ stack' = Lead[f] \o <<v>> \o extra
    /\ call' = [function |-> f, value |-> v, args |-> stack', list |-> 0]
    /\ stage' = "argument"
    /\ alive' = Held(stack') /\ buffer' = None /\ parsed' = <<>> /\ outcome' = None
    /\ UNCHANGED attempted

\* The index of the data argument
Index == Len(Lead[call.function]) + 1
Argument == stack[Index]

\* loadModel takes every string for a path.
IsPath(v) == v = "path" \/ (call.function = "loadModel" /\ v \in Strings)

\* Mutant: the data are those of the last argument.
ContentsOfTop ==
    /\ At("argument") /\ Argument \in Strings /\ ~IsPath(Argument)
    /\ stack' = Append(stack, Top)
    /\ buffer' = Top
    /\ Go("load")
    /\ UNCHANGED <<alive, parsed, attempted>>

\* The string holds the data: it is pushed once more.
Contents ==
    /\ At("argument") /\ Argument \in Strings /\ ~IsPath(Argument)
    /\ stack' = Append(stack, Argument)
    /\ buffer' = Argument
    /\ Go("load")
    /\ UNCHANGED <<alive, parsed, attempted>>

\* love.filesystem.read or newFileData: the FileData is left on the stack, or
\* the error it returns is raised.
OpenFile(data) ==
    \/ /\ stack' = Append(stack, data)
       /\ alive' = alive \cup {data}
       /\ Go("size")
       /\ UNCHANGED <<buffer, parsed, attempted>>
    \/ Fail

Open == At("argument") /\ IsPath(Argument) /\ OpenFile("file data")

\* loadModel reads a second file, the moc its JSON names.
OpenMoc == At("moc") /\ OpenFile("moc data")

\* A LOVE object: argToData pushes typeOf and its arguments twice and calls with
\* three arguments, so what is called is the string "File": an error, always.
Pushed == stack \o <<"typeOf", Top, "File", "typeOf", Top, "Data">>
FunctionSlot(s, arguments) == s[Len(s) - arguments]
LoveObject ==
    /\ At("argument") /\ Argument = "love" /\ call.function # "loadModel"
    /\ FunctionSlot(Pushed, 3) # "typeOf"
    /\ Fail

\* lua_tostring gives no string for a userdata, and strstr is called with NULL.
PlainUserdata ==
    /\ At("argument") /\ Argument = "plain" /\ call.function # "loadModel"
    /\ End("crashed") /\ UNCHANGED <<parsed, attempted>>

\* luaL_argerror, and luaL_checklstring of loadModel
WrongType ==
    /\ At("argument")
    /\ Argument = "table" \/ (call.function = "loadModel" /\ Argument \notin Strings)
    /\ Fail

\* getLoveData asks the value on top for its size and for its pointer.
Size ==
    /\ At("size")
    /\ Go("pointer")
    /\ UNCHANGED <<stack, alive, buffer, parsed, attempted>>

\* Mutant: the FileData is dropped once the pointer is known.
PointerAndPop ==
    /\ At("pointer")
    /\ buffer' = Top
    /\ stack' = Pop(1)
    /\ Go("load")
    /\ UNCHANGED <<alive, parsed, attempted>>

Pointer ==
    /\ At("pointer")
    /\ buffer' = Top
    /\ Go("load")
    /\ UNCHANGED <<stack, alive, parsed, attempted>>

\* The message of a failed FFI stays on the stack, the first time.
FFIMessages == IF attempted THEN {<<>>} ELSE {<<>>, <<"message">>}

\* What a constructor leaves besides: love.graphics.newMesh and its userdata
Constructed == {stack \o message \o <<"newMesh", "object">> : message \in FFIMessages}

\* Mutant: loadMotion pops what is below the data, too.
LeftByPoppingMore ==
    CASE call.function \in Constructors -> Constructed
      [] call.function = "loadMotion" -> {Pop(2)}
      [] OTHER -> {stack}

\* What a function leaves on the stack when its load is done
Left ==
    CASE call.function \in Constructors -> Constructed
      [] call.function = "loadMotion" -> {Pop(1)}
      [] OTHER -> {stack}

\* The first file of loadModel is the JSON.
IsJson == call.function = "loadModel" /\ parsed = <<>>

\* The load parses the bytes; for bad ones it throws, and the stack is cleared
\* before the error is raised.
Load ==
    /\ At("load")
    /\ parsed' = Append(parsed, buffer)
    /\ attempted' = (attempted \/ (call.function \in Constructors /\ ~IsJson))
    /\ \/ IsJson /\ Go("moc") /\ UNCHANGED <<stack, alive, buffer>>
       \/ ~IsJson /\ stack' \in Left /\ Go("return") /\ UNCHANGED <<alive, buffer>>
       \/ End("failed")

Return == At("return") /\ End("returned") /\ UNCHANGED <<parsed, attempted>>

\* initializeEyeBlink({...}): every element of the list leaves a value.
BeginList(n) ==
    /\ At("idle") /\ outcome # "crashed"
    /\ stack' = <<"self", "list">>
    /\ call' = [function |-> None, value |-> None, args |-> stack', list |-> n]
    /\ stage' = "list"
    /\ alive' = Held(stack') /\ buffer' = None /\ parsed' = <<>> /\ outcome' = None
    /\ UNCHANGED attempted

Names == Len(stack) - Len(call.args)

ListName ==
    /\ At("list") /\ Names < call.list
    /\ stack' = Append(stack, "eye")
    /\ UNCHANGED <<call, stage, alive, buffer, parsed, outcome, attempted>>

EndList ==
    /\ At("list") /\ Names >= call.list
    /\ End("returned") /\ UNCHANGED <<parsed, attempted>>

\* Lua collects what is not on the stack whenever it runs.
Collect ==
    /\ ~At("idle")
    /\ \E v \in alive : v \notin Held(stack) /\ alive' = alive \ {v}
    /\ UNCHANGED <<call, stage, stack, buffer, parsed, outcome, attempted>>

Next ==
    \/ \E f \in Functions, v \in Values, extra \in Extras : Begin(f, v, extra)
    \/ Contents \/ Open \/ OpenMoc \/ LoveObject \/ PlainUserdata \/ WrongType
    \/ Size \/ Pointer \/ Load \/ Return
    \/ \E n \in 0 .. MaxList : BeginList(n)
    \/ ListName \/ EndList
    \/ Collect

Spec == Init /\ [][Next]_vars

-----------------------------------------------------------------------------

\* The pointer the load works on belongs to a value that is on the Lua stack,
\* where no collection in the middle of the load (the constructor calls into Lua
\* many times) can free it.
Anchored == At("load") => buffer \in alive \cap Held(stack)

\* What is parsed is the file for a path and the string itself for contents, and
\* for loadModel the JSON and then the moc, whatever else the game passed and
\* whatever Lua did in between; a function returns when all of it is parsed.
Data == IF IsPath(call.value) THEN "file data" ELSE call.value
Wanted == IF call.function = "loadModel" THEN <<Data, "moc data">> ELSE <<Data>>
RightData ==
    /\ Len(parsed) <= Len(Wanted) /\ \A i \in DOMAIN parsed : parsed[i] = Wanted[i]
    /\ At("return") => Len(parsed) = Len(Wanted)

\* The stack of a call: the arguments stay in place below what it works with.
\* When the load is done loadMotion has added nothing, the others their data, and
\* a constructor's object is on top, with four values at most between it and the
\* arguments.
Balanced ==
    /\ ~At("idle") =>
        Len(stack) >= Len(call.args) /\ SubSeq(stack, 1, Len(call.args)) = call.args
    /\ At("return") =>
        CASE call.function \in Constructors ->
                Top = "object" /\ Len(stack) <= Len(call.args) + 5
          [] call.function = "loadMotion" -> stack = call.args
          [] OTHER -> stack = Append(call.args, buffer)

\* "Data, File, or string expected": an object of LOVE's that is passed as data
\* reaches the load.
DataAccepted ==
    At("idle") /\ outcome = "failed" /\ call.value = "love" /\ call.function # "loadModel"
        => parsed # <<>>

=============================================================================
