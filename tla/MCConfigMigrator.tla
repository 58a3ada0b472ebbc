-------------------------- MODULE MCConfigMigrator --------------------------
(***************************************************************************)
(* The migration of a few instances, each in the old layout, in the new    *)
(* one, or left between the two by an earlier run.                         *)
(***************************************************************************)
EXTENDS ConfigMigrator

MCDirs == <<"i1", "i2">>
MCAtoi == <<"6379">> :> 6379

SAVE == Param(<<"save">>, <<"900">>)
MCText == {<<>>, <<"port">>, <<"requirepass">>, <<"save">>, <<"900">>, <<"6379">>, <<"x">>}
MCSettings == {<<"port">>, <<"requirepass">>, <<"save">>}
MCConfs == {<<SAVE>>,
            <<Param(<<"port">>, <<>>), SAVE>>,
            <<Param(<<"port">>, <<"6379">>), SAVE>>,
            <<Param(<<"port">>, <<"6379">>), SAVE, Param(<<"requirepass">>, <<"x">>)>>}
MCContents == {<<"6379", NL>>, <<"x">>}
=============================================================================
