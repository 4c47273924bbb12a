------------------------------ MODULE Instance ------------------------------
(***************************************************************************)
(* A LaBRADOR problem instance: quadratic equality constraints and         *)
(* constant-zero constraints over r witness vectors of n polynomials, the  *)
(* packed form of symmetric matrices, the Ajtai commitment, and the two    *)
(* aggregations that turn every constraint into one.  Matrices are flat    *)
(* and row-major, indexed from 0, as in the code.                          *)
(***************************************************************************)
EXTENDS PolyRing, Sequences

\* The number of entries on and above the diagonal of an r x r matrix.
PackedLen(r) == (r * (r + 1)) \div 2

\* Where row i starts in the packed form: rows 0 .. i - 1 hold r, r - 1, ...
RowStart(i, r) == i * r - (i * (i - 1)) \div 2
RowOf(p, r) ==
  CHOOSE i \in 0 .. r - 1 : RowStart(i, r) <= p /\ p < RowStart(i, r) + r - i

extract_symm_part(mat, r) ==
  [p \in 0 .. PackedLen(r) - 1 |->
     LET i == RowOf(p, r) IN mat[i * r + i + p - RowStart(i, r)]]

\* Copy the packed rows to the upper triangle, then mirror it.
reconstruct_symm_matrix(v, r) ==
  [e \in 0 .. r * r - 1 |->
     LET i  == e \div r
         j  == e % r
         lo == IF i <= j THEN i ELSE j
         hi == IF i <= j THEN j ELSE i
     IN  v[RowStart(lo, r) + hi - lo]]

\* Mutant: the stride is one short.
compute_matrix_trace_stride(mat, r) == SumP(r, LAMBDA i : mat[i * r])

\* The diagonal is a strided slice with stride r + 1.
compute_matrix_trace(mat, r) == SumP(r, LAMBDA i : mat[i * (r + 1)])

\* Product of a rows x inner by an inner x cols matrix over Tq.
matmul(x, rows, inner, y, cols) ==
  [e \in 0 .. rows * cols - 1 |->
     [c \in Idx |->
        SumZ(inner, LAMBDA k : x[(e \div cols) * inner + k][c] * y[k * cols + (e % cols)][c])]]

transpose(x, rows, cols) ==
  [e \in 0 .. rows * cols - 1 |-> x[(e % rows) * cols + (e \div rows)]]

\* Every row of S, of length inLen, times the inLen x outLen matrix A.
ajtai_commitment(A, inLen, outLen, S, batch) == matmul(S, batch, inLen, A, outLen)

VecNtt(v)  == [k \in DOMAIN v |-> Ntt(v[k])]
VecIntt(v) == [k \in DOMAIN v |-> Intt(v[k])]

\* Balanced digits of a vector of polynomials, digit-major: digit k of entry e
\* is at k * len + e.
decompose(v, len, b, digits) ==
  LET chain(x) ==
        LET c[k \in 0 .. digits - 1] ==
              DigitStep(IF k = 0 THEN x ELSE c[k - 1].rest, b)
        IN  c
  IN  [i \in 0 .. digits * len - 1 |->
         [c \in Idx |-> chain(v[i % len][c])[i \div len].digit]]

recompose(w, len, b, digits) ==
  [e \in 0 .. len - 1 |->
     [c \in Idx |->
        LET acc[k \in 0 .. digits] ==
              IF k = digits THEN 0 ELSE (acc[k + 1] * b + w[k * len + e][c]) % Q
        IN  acc[0]]]

-----------------------------------------------------------------------------
\* EqualityInstance:   sum_ij a_ij <s_i, s_j> + sum_i <phi_i, s_i> + b = 0.
\* ConstZeroInstance:  the constant coefficient of the same, with b in Zq.

\* The left-hand side without b, for a witness in the NTT domain and its Gram
\* matrix G_hat = S S^t.
Eval(con, S_hat, G_hat, r, n) ==
  AddP(DotT(r * r, G_hat, con.a), DotT(r * n, S_hat, con.phi))

Gram(S_hat, r, n) == matmul(S_hat, r, n, transpose(S_hat, r, n), r)

witness_legit_eq(con, S_hat, r, n) ==
  AddP(Eval(con, S_hat, Gram(S_hat, r, n), r, n), con.b) = ZeroPoly

witness_legit_const_zero(con, S_hat, r, n) ==
  (Intt(Eval(con, S_hat, Gram(S_hat, r, n), r, n))[0] + con.b) % Q = 0

lab_witness_legit(inst, S_hat, r, n) ==
  /\ \A k \in DOMAIN inst.eq : witness_legit_eq(inst.eq[k], S_hat, r, n)
  /\ \A k \in DOMAIN inst.cz : witness_legit_const_zero(inst.cz[k], S_hat, r, n)

\* agg_equality_constraints: the list is replaced by one random combination.
agg_equality_constraints(eq, alpha, r, n) ==
  LET Comb(f(_)) == SumP(Len(eq), LAMBDA k : MulT(alpha[k + 1], f(eq[k + 1])))
  IN  << [a   |-> [e \in 0 .. r * r - 1 |-> Comb(LAMBDA con : con.a[e])],
          phi |-> [e \in 0 .. r * n - 1 |-> Comb(LAMBDA con : con.phi[e])],
          b   |-> Comb(LAMBDA con : con.b)] >>

\* One round of agg_const_zero_constraints, before b is known: the psi
\* combination of the constraints plus the NTT of the omega combination of the
\* conjugated rows of the projection matrix J.
agg_round(cz, psi, omega, J, r, n) ==
  LET Comb(f(_)) == SumP(Len(cz), LAMBDA l : ScaleP(psi[l + 1], f(cz[l + 1])))
      Rows(e)    == SumP(Len(J), LAMBDA j : ScaleP(omega[j + 1], Conjugate(J[j + 1][e])))
  IN  [a   |-> [e \in 0 .. r * r - 1 |-> Comb(LAMBDA con : con.a[e])],
       phi |-> [e \in 0 .. r * n - 1 |->
                  AddP(Comb(LAMBDA con : con.phi[e]), Ntt(Rows(e)))],
       b   |-> ZeroPoly]

\* jl_projection: row j of J against all coefficients of the witness.
jl_projection(J, S, len) ==
  [j \in DOMAIN J |->
     SumZ(len, LAMBDA e : SumZ(Deg, LAMBDA c : J[j][e][c] * S[e][c]))]

-----------------------------------------------------------------------------
\* check_norm_bound of a vector of polynomials, LInfinity.
norm_LInf(v, bound) == \A k \in DOMAIN v : \A c \in Idx : abs_centered(v[k][c]) < bound
=============================================================================
