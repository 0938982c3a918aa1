---------------------------- MODULE Identifiers ----------------------------
(***************************************************************************)
(* Identifiers of modules and services (src/Source/include/Types.hpp,      *)
(* src/Source/src/Types.cpp).                                              *)
(*                                                                         *)
(* An identifier is a signed 32-bit number; its highest byte says what it  *)
(* names and the other three bytes are the number of the module or of the  *)
(* service.  The union of the number with four signed bytes is read as the *)
(* little-endian targets of the build read it: bytes[3] is the highest.    *)
(***************************************************************************)
EXTENDS Integers

CONSTANT Byte3          \* the weight of bytes[3], 2^24 in the source

ASSUME Byte3Type == Byte3 \in Nat /\ Byte3 > 1

Identifier == (-128) * Byte3 .. 127 * Byte3 + (Byte3 - 1)

ModuleIdentifierCode == 42
ServiceIdentifierCode == 52

\* bytes[3], in -128 .. 127.
highByte(identifier) == identifier \div Byte3

\* Mutant: the code of a service marks a module.
Tagged_anyCode(identifier, code) ==
    IF highByte(identifier) # 0 THEN -1 ELSE identifier + ServiceIdentifierCode * Byte3

\* The number with its highest byte set, or -1 when that byte is taken.
Tagged(identifier, code) ==
    IF highByte(identifier) # 0 THEN -1 ELSE identifier + code * Byte3

isModuleIdentifier(identifier) == highByte(identifier) = ModuleIdentifierCode

toModuleIdentifier(identifier) == Tagged(identifier, ModuleIdentifierCode)

\* The test assigns (bytes[3] = 0) and so is never true.
canBeModuleIdentifier(identifier) == TRUE

isServiceIdentifier(identifier) == highByte(identifier) = ServiceIdentifierCode

toServiceIdentifier(identifier) == Tagged(identifier, ServiceIdentifierCode)

canBeServiceIdentifier(identifier) == highByte(identifier) = ServiceIdentifierCode

getMinimalModuleIdentifier == ModuleIdentifierCode * Byte3

----------------------------------------------------------------------------
(* What the identifiers are for: telling modules from services, and one    *)
(* from another.                                                           *)

Numbered(n) == n \in 0 .. Byte3 - 1

\* A number that fits gives an identifier of its kind and not of the other,
\* from which the number can be recovered; one that does not fit gives -1, which is of
\* neither kind; and a module's identifier is never below the minimal one.
KindsApart(n) ==
    LET m == toModuleIdentifier(n)
        s == toServiceIdentifier(n)
    IN  /\ Numbered(n) => /\ isModuleIdentifier(m) /\ ~isServiceIdentifier(m)
                          /\ isServiceIdentifier(s) /\ ~isModuleIdentifier(s)
                          /\ m % Byte3 = n /\ s % Byte3 = n
                          /\ m >= getMinimalModuleIdentifier
        /\ ~Numbered(n) => m = -1 /\ s = -1
        /\ ~isModuleIdentifier(-1) /\ ~isServiceIdentifier(-1)
        /\ canBeServiceIdentifier(n) <=> isServiceIdentifier(n)
        /\ isModuleIdentifier(n) => canBeModuleIdentifier(n)

\* The numbers at which a byte overflows or a sign changes.
Edge ==
    {e + d : e \in {0, Byte3, -Byte3, 42 * Byte3, 52 * Byte3, 127 * Byte3}, d \in -1 .. 1}
        \cup {(-128) * Byte3, 127 * Byte3 + (Byte3 - 1)}

\* Types::toServiceIdentifier and toModuleIdentifier keep modules and services
\* apart, at every number where a byte overflows or a sign changes.
IdentifiersApart == \A n \in Edge : KindsApart(n)
============================================================================
