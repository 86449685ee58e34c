--------------------------- MODULE MCPointerTransfer ---------------------------
(***************************************************************************)
(* All facts about a struct, its field and a register, and the             *)
(* instructions that can name them.                                        *)
(***************************************************************************)
EXTENDS PointerTransfer

struct == <<"alloca", "s">>
field == <<"field", struct, 0>>
register == <<"load", "l">>
other == <<"inst", "i">>
unseen == <<"alloca", "v">>

MCFact ==
    LET nodes == {struct, field, register}
    IN  {[EmptyFact EXCEPT !.pts = pts, !.field = (struct :> field), !.fields = {field}] :
            pts \in [nodes -> SUBSET nodes]}

MCInstructions ==
    {Alloca(unseen, <<"pointer", "struct">>)} \cup
    {Load(v, p) : v \in {register, other}, p \in {struct, register, unseen}} \cup
    {GetElementPtr(v, p, "struct") : v \in {register, other}, p \in {struct, register}} \cup
    {BitCast(v, p, <<"pointer", "scalar">>) : v \in {register, other}, p \in {struct, register}} \cup
    {Store(v, struct) : v \in {struct, register, unseen, <<"null", "null">>, <<"int", 7>>}} \cup
    {Store(v, register) : v \in {struct, register, <<"null", "null">>}} \cup
    {MemCpy(register, p) : p \in {struct, register}} \cup
    {MemSet(p, <<"int", 0>>) : p \in {struct, register}}
================================================================================
