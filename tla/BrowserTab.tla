------------------------------ MODULE BrowserTab ------------------------------
(***************************************************************************)
(* One browser tab: the shell and its monitoring pages (Console) and the   *)
(* SQL worksheet (Worksheet), joined where the application joins them: the *)
(* route mounts and unmounts the worksheet (App.tsx), the header's switch  *)
(* is in the persisted store the worksheet writes as well                  *)
(* (store/useAppStore.ts), and loading the page again takes both back to   *)
(* what is stored.                                                         *)
(***************************************************************************)
EXTENDS Worksheet, Console

CONSTANT Tab   \* this tab, the only one

ASSUME TabAssumption == Tabs = {Tab} /\ "worksheet" \in Routes

\* The application opens on the topology, its default route.
TabInit == Init /\ ConsoleInit /\ route = "topology"

\* The worksheet is mounted while its route is shown.
FollowLink ==
    /\ Navigate
    /\ CASE route' = "worksheet" -> Enter(Tab)
         [] route = "worksheet" -> Leave(Tab)
         [] OTHER -> UNCHANGED vars

SwitchRefresh == ToggleRefresh /\ ToggleAutoRefresh(Tab)

\* The switch is what it was when the store was last written.
ReloadTab == /\ LoadPage
             /\ Reload(Tab)
             /\ autoRefresh' = memory'[Tab].autoRefresh

Working == \/ TypeSql(Tab) \/ PickDatabase(Tab) \/ Press(Tab) \/ Render(Tab)
           \/ \E r \in Runs : \/ Reply(r) \/ ConnectionFails(r) \/ ClientTimesOut(r)
                              \/ Arrive(r) \/ Finish(r) \/ Abort(r) \/ Wait(r)

TabNext == \/ FollowLink \/ SwitchRefresh \/ ReloadTab
           \/ Staying /\ UNCHANGED vars
           \/ Working /\ UNCHANGED consoleVars

TabSpec == TabInit /\ [][TabNext]_<<vars, consoleVars>>
===============================================================================
