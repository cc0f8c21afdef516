------------------------------- MODULE Arith -------------------------------
(***************************************************************************)
(* The integer arithmetic of CIR (src/src/cir/Arith.cpp), and what the     *)
(* reference interpreter (src/src/cir/interp.py) makes of it.  The widths  *)
(* of i32 and i64 are constants; the code's are 32 and 64, and any powers  *)
(* of two in the same order behave alike.                                  *)
(***************************************************************************)
EXTENDS Integers, FiniteSetsExt

CONSTANTS W32, W64

ASSUME WidthAssumption ==
    /\ W32 \in Nat /\ W64 \in Nat
    /\ 1 < W32 /\ W32 < W64
    /\ \E m, n \in 1..W64 : W32 = 2^m /\ W64 = 2^n

IntTypes == {"i1", "i32", "i64"}
IntWidth == [i1 |-> 1, i32 |-> W32, i64 |-> W64]
Modulus(ty)   == 2^IntWidth[ty]
MinSigned(ty) == -(2^(IntWidth[ty] - 1))

(* wrapInt: the signed two's-complement value, so i1 true is -1. *)
WrapInt(v, ty) ==
    LET u == v % Modulus(ty)
    IN IF u >= 2^(IntWidth[ty] - 1) THEN u - Modulus(ty) ELSE u

(* _wrap: the interpreter's values, where i1 is 0 or 1. *)
Wrap(v, ty) == IF ty = "i1" THEN v % 2 ELSE WrapInt(v, ty)

(* toUnsigned *)
Unsigned(v, ty) == v % Modulus(ty)

(* Division rounding toward zero. *)
Magnitude(a) == IF a < 0 THEN -a ELSE a
DivTrunc(a, b) ==
    LET q == Magnitude(a) \div Magnitude(b) IN IF (a < 0) = (b < 0) THEN q ELSE -q

DivOps   == {"sdiv", "srem", "udiv", "urem"}
ShiftOps == {"shl", "ashr", "lshr"}
BitOps   == {"and", "or", "xor"}
BinOps   == {"add", "sub", "mul"} \cup DivOps \cup ShiftOps \cup BitOps

(* divTraps: by zero, and the signed one that overflows. *)
BinOpTraps(op, ty, a, b) ==
    \/ op \in {"udiv", "urem"} /\ Unsigned(b, ty) = 0
    \/ op \in {"sdiv", "srem"} /\ (b = 0 \/ (a = MinSigned(ty) /\ b = -1))

Bit(v, i) == (v \div 2^i) % 2
BitwiseOp(op, ty, a, b) ==
    LET Take(x, y) == CASE op = "and" -> x * y
                        [] op = "or"  -> x + y - x * y
                        [] op = "xor" -> (x + y) % 2
    IN MapThenSumSet(LAMBDA i : Take(Bit(a, i), Bit(b, i)) * 2^i,
                     0..(IntWidth[ty] - 1))

(* maskShift: the shift count is taken modulo the width. *)
ShiftCount(b, ty) == b % IntWidth[ty]

(* An operation that does not trap, before it is reduced to its type. *)
RawBinOp(op, ty, a, b) ==
    CASE op = "add"  -> a + b
      [] op = "sub"  -> a - b
      [] op = "mul"  -> a * b
      [] op = "sdiv" -> DivTrunc(a, b)
      [] op = "srem" -> a - DivTrunc(a, b) * b
      [] op = "udiv" -> Unsigned(a, ty) \div Unsigned(b, ty)
      [] op = "urem" -> Unsigned(a, ty) % Unsigned(b, ty)
      [] op = "shl"  -> Unsigned(a, ty) * 2^ShiftCount(b, ty)
      [] op = "ashr" -> WrapInt(a, ty) \div 2^ShiftCount(b, ty)
      [] op = "lshr" -> Unsigned(a, ty) \div 2^ShiftCount(b, ty)
      [] OTHER       -> BitwiseOp(op, ty, a, b)
BinOp(op, ty, a, b) == Wrap(RawBinOp(op, ty, a, b), ty)

SignedCmps   == {"icmp.eq", "icmp.ne", "icmp.slt", "icmp.sle", "icmp.sgt", "icmp.sge"}
UnsignedCmps == {"icmp.ult", "icmp.ule", "icmp.ugt", "icmp.uge"}
Cmps == SignedCmps \cup UnsignedCmps

(* icmp: the unsigned predicates compare the masked operands. *)
ICmp(op, ty, a, b) ==
    LET x == IF op \in UnsignedCmps THEN Unsigned(a, ty) ELSE a
        y == IF op \in UnsignedCmps THEN Unsigned(b, ty) ELSE b
        holds == CASE op = "icmp.eq" -> x = y
                   [] op = "icmp.ne" -> x # y
                   [] op \in {"icmp.slt", "icmp.ult"} -> x < y
                   [] op \in {"icmp.sle", "icmp.ule"} -> x <= y
                   [] op \in {"icmp.sgt", "icmp.ugt"} -> x > y
                   [] op \in {"icmp.sge", "icmp.uge"} -> x >= y
    IN IF holds THEN 1 ELSE 0

ConvOps == {"sext", "zext", "trunc"}

(* _convert, integer to integer: sext of an i1 spreads the sign bit. *)
Convert(op, ty, v, srcTy) ==
    CASE op = "sext"  -> Wrap(IF srcTy = "i1" THEN -v ELSE v, ty)
      [] op = "zext"  -> Wrap(Unsigned(v, srcTy), ty)
      [] op = "trunc" -> Wrap(v, ty)

UnaryOps == {"neg", "not"}
RawUnaryOp(op, v) == IF op = "neg" THEN -v ELSE -v - 1
UnaryOp(op, ty, v) == Wrap(RawUnaryOp(op, v), ty)
=============================================================================
