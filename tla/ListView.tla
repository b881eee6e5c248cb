------------------------------ MODULE ListView ------------------------------
(***************************************************************************)
(* The list and the pages of core/tezos_widgets.c: the selected row, the   *)
(* window of rows that is drawn, and the page shown.                       *)
(***************************************************************************)
EXTENDS Integers

CONSTANTS
    MaxRows,    \* bound: items of a list, pages
    Heights     \* how many rows the screens have room for

ASSUME ListAssumption == MaxRows \in Nat /\ Heights \subseteq Nat

VARIABLES
    height,         \* h / row_h of the screen that draws the list
    itemCount, selectedRow, scrollOffset, visibleRows,
    drawn,          \* has the list been drawn since it last changed?
    page, pageCount

listVars == <<height, itemCount, selectedRow, scrollOffset, visibleRows, drawn, page, pageCount>>
pageVars == <<page, pageCount>>

\* tezos_list_init: also called again when the items change; the screen may
\* then select a row, as the network editor does.
ListSet ==
    /\ itemCount' \in 0 .. MaxRows
    /\ selectedRow' \in {0} \cup 0 .. itemCount' - 1
    /\ scrollOffset' = 0 /\ visibleRows' = 0 /\ drawn' = FALSE
    /\ UNCHANGED <<height, pageVars>>

ListUp ==
    /\ itemCount # 0 /\ selectedRow > 0
    /\ selectedRow' = selectedRow - 1
    /\ scrollOffset' = IF selectedRow' < scrollOffset THEN selectedRow' ELSE scrollOffset
    /\ drawn' = FALSE
    /\ UNCHANGED <<height, itemCount, visibleRows, pageVars>>

\* Mutant: the window stays where it is.
ListDown_NoScroll ==
    /\ selectedRow < itemCount - 1
    /\ selectedRow' = selectedRow + 1
    /\ scrollOffset' = IF visibleRows > 0 THEN selectedRow' ELSE scrollOffset
    /\ drawn' = FALSE
    /\ UNCHANGED <<height, itemCount, visibleRows, pageVars>>
ListDown ==
    /\ selectedRow < itemCount - 1
    /\ selectedRow' = selectedRow + 1
    /\ scrollOffset' = IF visibleRows > 0 /\ selectedRow' >= scrollOffset + visibleRows
                       THEN selectedRow' - visibleRows + 1 ELSE scrollOffset
    /\ drawn' = FALSE
    /\ UNCHANGED <<height, itemCount, visibleRows, pageVars>>

\* tezos_list_render, at the end of the tick.
ListRender ==
    /\ ~drawn /\ drawn' = TRUE
    /\ visibleRows' = IF height < 1 THEN 1 ELSE height
    /\ scrollOffset' =
         CASE selectedRow >= scrollOffset + visibleRows' -> selectedRow - visibleRows' + 1
           [] selectedRow < scrollOffset -> selectedRow
           [] OTHER -> scrollOffset
    /\ UNCHANGED <<height, itemCount, selectedRow, pageVars>>

PageDown ==
    /\ page < pageCount - 1 /\ page' = page + 1
    /\ UNCHANGED <<height, itemCount, selectedRow, scrollOffset, visibleRows, drawn, pageCount>>

PageUp ==
    /\ page > 0 /\ page' = page - 1
    /\ UNCHANGED <<height, itemCount, selectedRow, scrollOffset, visibleRows, drawn, pageCount>>

ListInit ==
    /\ height \in Heights
    /\ itemCount = 0 /\ selectedRow = 0 /\ scrollOffset = 0 /\ visibleRows = 0 /\ drawn = FALSE
    /\ page = 0 /\ pageCount \in 1 .. MaxRows

\* A tick handles a key, or the screen sets up a list, and then draws.
ListNext ==
    \/ drawn /\ (ListSet \/ ListUp \/ ListDown \/ PageDown \/ PageUp)
    \/ ListRender

ListSpec == ListInit /\ [][ListNext]_listVars

-----------------------------------------------------------------------------
\* The row that SELECT would take is always among those drawn, the rows drawn
\* fill the list's place when there are enough of them, and the page shown is
\* one of the pages.
SelectionIsVisible ==
    /\ drawn /\ itemCount > 0 =>
          /\ selectedRow \in scrollOffset .. scrollOffset + visibleRows - 1
          /\ selectedRow < itemCount
          /\ scrollOffset = 0 \/ scrollOffset + visibleRows <= itemCount
    /\ page \in 0 .. pageCount - 1
=============================================================================
