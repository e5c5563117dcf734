----------------------------- MODULE Directory -----------------------------
(***************************************************************************)
(* Where the format of a command is found: the tables of                   *)
(* dcframe/tools/pkghelper/dcf_pkghelper.cpp and the binary search of      *)
(* dcframe/tools/sort/dcf_sort.cpp. The tables are those of the code; the  *)
(* format of a command is named by the module and the command.             *)
(***************************************************************************)
EXTENDS Integers, Sequences, FiniteSets, SequencesExt

NotFound == -1

\* The place in a that Compare says is keyvalue's: -1 goes on to the right of the
\* middle, 1 to the left.
quickFind2Way(a, keyvalue, Compare(_, _)) ==
  LET find[left \in 0 .. Len(a), right \in -1 .. Len(a) - 1] ==
        LET mid == (left + right) \div 2
            iCompare == Compare(a[mid + 1], keyvalue)
        IN CASE left > right -> NotFound
             [] left <= right /\ iCompare = 0 -> mid
             [] left <= right /\ iCompare > 0 -> find[left, mid - 1]
             [] left <= right /\ iCompare < 0 -> find[mid + 1, right]
  IN find[0, Len(a) - 1]

CompareKey(key1, key2) == CASE key1 < key2 -> -1 [] key1 = key2 -> 0 [] key1 > key2 -> 1

\* An area is found by any number in it, its two ends included.
CompareArea(area, cmd) ==
  CASE area.wCmdBegin > cmd -> 1
    [] area.wCmdBegin <= cmd /\ area.wCmdEnd >= cmd -> 0
    [] area.wCmdEnd < cmd -> -1

----------------------------------------------------------------------------
(* The tables. An area reaches to where the next one begins.                *)

Area(begin, end, modid, cmds) ==
  [wCmdBegin |-> begin, wCmdEnd |-> end, wModid |-> modid, cmds |-> {begin + k : k \in cmds}]

\* g_CmdAreaList, with the commands of each module.
g_CmdAreaList ==
  <<Area(256, 288, 4, 1 .. 2),   Area(288, 304, 30, 1 .. 3),  Area(304, 309, 31, {1}),
    Area(309, 314, 32, 1 .. 3),  Area(314, 320, 34, 1 .. 2),  Area(320, 325, 36, 1 .. 4),
    Area(352, 357, 33, {1}),     Area(368, 373, 37, {1}),     Area(512, 528, 42, 1 .. 3),
    Area(528, 544, 41, 1 .. 4),  Area(544, 560, 50, 1 .. 4),  Area(560, 565, 52, 1 .. 3),
    Area(565, 576, 51, {1}),     Area(576, 581, 54, 1 .. 2),  Area(581, 586, 55, 1 .. 3),
    Area(586, 592, 56, 1 .. 5),  Area(592, 597, 57, 1 .. 2),  Area(597, 602, 58, {1}),
    Area(602, 608, 59, {1}),     Area(608, 672, 65, 1 .. 16 \ {4}), Area(672, 688, 66, 1 .. 5)>>

\* g_module_cmd_reg: the modules in their order, and the commands of each.
g_module_cmd_reg ==
  LET order == <<4, 30, 31, 32, 33, 34, 36, 37, 41, 42, 50, 51, 52, 54, 55, 56, 57, 58, 59, 65, 66>>
      CmdsOf(m) == (CHOOSE a \in ToSet(g_CmdAreaList) : a.wModid = m).cmds
  IN [k \in DOMAIN order |-> [belong_module |-> order[k], regs |-> CmdsOf(order[k])]]

NULLFormat == <<>>

dcf_tools_get_mod_cmd_struct_trans_info(modid, wCmd) ==
  LET dwPt == quickFind2Way(g_module_cmd_reg, modid, LAMBDA m, key : CompareKey(m.belong_module, key))
  IN IF dwPt = NotFound \/ wCmd \notin g_module_cmd_reg[dwPt + 1].regs THEN NULLFormat ELSE <<modid, wCmd>>

dcf_tools_get_cmd_fmt_info(wCmd) ==
  LET dwPt == quickFind2Way(g_CmdAreaList, wCmd, CompareArea)
  IN IF dwPt = NotFound \/ dwPt >= Len(g_module_cmd_reg) THEN NULLFormat
     ELSE dcf_tools_get_mod_cmd_struct_trans_info(g_CmdAreaList[dwPt + 1].wModid, wCmd)
=============================================================================
