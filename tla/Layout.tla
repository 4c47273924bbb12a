------------------------------- MODULE Layout -------------------------------
(***************************************************************************)
(* RecursionPreparer: where the pieces of a base proof lie in the          *)
(* r_prime x n_prime witness of the next round, and in the phi of its      *)
(* constraints.  A problem prm has the sizes prev_n, t_len, g_len, h_len   *)
(* and the row counts mu and nu.  z is cut into two digits z0 and z1.      *)
(***************************************************************************)
EXTENDS Integers

Problem == [prev_n : Nat \ {0}, t_len : Nat \ {0}, g_len : Nat \ {0},
            h_len : Nat \ {0}, mu : Nat \ {0}, nu : Nat \ {0}]

Regions == {"z0", "z1", "t", "g", "h"}

CeilDiv(a, b) == (a + b - 1) \div b

n_prime(prm) ==
  LET rows_z == CeilDiv(prm.prev_n, prm.nu)
      rows_m == CeilDiv(prm.t_len + prm.g_len + prm.h_len, prm.mu)
  IN  IF rows_z >= rows_m THEN rows_z ELSE rows_m

L_t(prm) == CeilDiv(prm.t_len, n_prime(prm))
L_g(prm) == CeilDiv(prm.g_len, n_prime(prm))
L_h(prm) == CeilDiv(prm.h_len, n_prime(prm))

r_prime(prm) == 2 * prm.nu + L_t(prm) + L_g(prm) + L_h(prm)

\* Mutant: h starts where g does.
FirstRowOverlap(prm, reg) ==
  CASE reg = "z0" -> 0 [] reg = "z1" -> prm.nu [] reg = "t" -> 2 * prm.nu
    [] reg \in {"g", "h"} -> 2 * prm.nu + L_t(prm)

\* The first row of a region; its first cell is n_prime times that.
FirstRow(prm, reg) ==
  CASE reg = "z0" -> 0
    [] reg = "z1" -> prm.nu
    [] reg = "t"  -> 2 * prm.nu
    [] reg = "g"  -> 2 * prm.nu + L_t(prm)
    [] reg = "h"  -> 2 * prm.nu + L_t(prm) + L_g(prm)
begin_idx(prm, reg) == FirstRow(prm, reg) * n_prime(prm)

RegionLen(prm, reg) ==
  CASE reg \in {"z0", "z1"} -> prm.prev_n
    [] reg = "t" -> prm.t_len
    [] reg = "g" -> prm.g_len
    [] reg = "h" -> prm.h_len

\* The cells copy_like_<reg> writes.
Cells(prm, reg) ==
  begin_idx(prm, reg) .. begin_idx(prm, reg) + RegionLen(prm, reg) - 1

\* Row-major: the row a cell belongs to.
RowOfCell(prm, cell) == cell \div n_prime(prm)

\* copy_like_<reg>: cells of dst that are not the region's stay as they are.
copy_like(prm, reg, dst, src) ==
  [cell \in DOMAIN dst \cup Cells(prm, reg) |->
     IF cell \in Cells(prm, reg) THEN src[cell - begin_idx(prm, reg)] ELSE dst[cell]]

-----------------------------------------------------------------------------
\* No copy leaves the r_prime x n_prime array (icicle_copy checks nothing).
InBounds(prm) ==
  \A reg \in Regions : Cells(prm, reg) \subseteq 0 .. r_prime(prm) * n_prime(prm) - 1

\* No two copies write a common row, so neither overwrites the other and a
\* quadratic term on the rows of z touches nothing else.
RowsApart(prm) ==
  \A reg, other \in Regions :
    reg # other =>
      \A x \in Cells(prm, reg), y \in Cells(prm, other) :
        RowOfCell(prm, x) # RowOfCell(prm, y)
=============================================================================
