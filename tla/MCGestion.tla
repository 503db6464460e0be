------------------------------- MODULE MCGestion -------------------------------
(* Treasury, members, stock, the reference fields of their forms, and the files    *)
(* that are exported and imported, which share no state: a behaviour is of one of  *)
(* them, "parte", and the others rest in their initial states.                     *)
EXTENDS Tesoreria, Socias, Existencias, SearchField, ImportExport, TLC

CONSTANTS lata, caja

VARIABLE parte

\* A box is made of two tins.
MCBase     == (caja :> lata) @@ (lata :> Ninguno)
MCMultiplo == (caja :> 2) @@ (lata :> 1)

\* Two records: the code of one begins as that of the other, and its name ends as the other's.
MCTargets      == {1, 2}
MCCodes        == {<<"a">>, <<"a", "b">>}
MCName         == <<<<"d">>, <<"c", "d">>>>
MCSecondary    == <<<<<<"d">>, <<"e">>>>, <<<<"d", "e">>, <<"e">>>>>>
MCTexts        == {<<>>, <<"a">>, <<"b">>, <<"d">>, <<"e">>}
MCFlagSets     == {{}, {"InsertIfNotFound"}, {"SeekCodeInDesc"}}
MCFirstTargets == <<<<"a">>, <<"a", "b">>>>
MCChanging     == {2}

\* Files: two rows, or one with a longer text or one that the format does not keep.
TextsUpTo(n) == BoundedSeq({"x", Quote, Comma, NewLine}, n)
Entry(c, t)  == [code |-> c, text |-> t]
OddTexts == {<<"x", Escape>>, <<Escape, "n">>, <<" ", "x">>, <<"x", " ", NewLine, "x">>, <<"~">>}
MCFirstTables ==
  {<<Entry(<<"a">>, t), Entry(c, u), NoEntry>> :
     t \in TextsUpTo(2), c \in {<<Quote>>, <<"b", Comma>>}, u \in {<<>>, <<"x">>}}
  \cup {<<Entry(<<"a">>, t), NoEntry, NoEntry>> : t \in TextsUpTo(4) \cup OddTexts}
MCChanges == {Entry(<<"a">>, <<"y">>), Entry(<<"c">>, <<"y">>)}

InitGestion ==
  /\ parte \in {"tesoreria", "socias", "existencias", "referencias", "ficheros"}
  /\ Init /\ InitSocias /\ IniciaExistencias /\ InitSearch /\ InitTransfer
  /\ parte # "existencias" => ~compra
  /\ parte # "referencias" => search.flags = {}
  /\ parte # "ficheros" => table = <<Entry(<<"a">>, <<>>), NoEntry, NoEntry>>

NextGestion ==
  /\ \/ parte = "tesoreria" /\ Next /\ UNCHANGED <<varSocias, varExistencias, searchVars, transferVars>>
     \/ parte = "socias" /\ NextSocias /\ UNCHANGED <<vars, varExistencias, searchVars, transferVars>>
     \/ parte = "existencias" /\ SigueExistencias /\ UNCHANGED <<vars, varSocias, searchVars, transferVars>>
     \/ parte = "referencias" /\ NextSearch /\ UNCHANGED <<vars, varSocias, varExistencias, transferVars>>
     \/ parte = "ficheros" /\ NextTransfer
        /\ UNCHANGED <<vars, varSocias, varExistencias, searchVars>>
  /\ UNCHANGED parte

SpecGestion ==
  InitGestion /\ [][NextGestion]_<<parte, vars, varSocias, varExistencias, searchVars, transferVars>>

\* The types of the five parts.
TypeOKGestion == TypeOK /\ TypeOKSocias /\ TypeOKExistencias /\ TypeOKSearch /\ TypeOKTransfer

Simetria ==
  Permutations(Puestos) \cup Permutations(Formularios) \cup Permutations(Facturas)
===============================================================================
