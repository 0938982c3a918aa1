------------------------- MODULE IdentifiersProofs -------------------------
(* The laws of Identifiers, for every number a program can pass.           *)
EXTENDS Identifiers, TLAPS

\* The highest byte of a 32-bit number is a signed byte, and the number is that
\* byte's weight plus the three lower bytes (the layout of IdentifierUnion).
LEMMA HighByte ==
    ASSUME NEW n \in Identifier
    PROVE  /\ n \in Int
           /\ Numbered(n) <=> highByte(n) = 0
  BY Byte3Type, SMT DEF Identifier, highByte, Numbered

\* A number that fits keeps its three bytes and takes the code as its highest.
LEMMA TaggedNumber ==
    ASSUME NEW n \in Identifier, NEW code \in {42, 52}, Numbered(n)
    PROVE  /\ Tagged(n, code) = n + code * Byte3
           /\ highByte(Tagged(n, code)) = code
           /\ Tagged(n, code) % Byte3 = n
           /\ Tagged(n, code) >= code * Byte3
  <1>1. highByte(n) = 0
    BY HighByte, SMT
  <1>2. Tagged(n, code) = n + code * Byte3
    BY <1>1, SMT DEF Tagged
  <1>3. n \in 0 .. Byte3 - 1
    BY SMT DEF Numbered
  <1>4. (n + 42 * Byte3) \div Byte3 = 42 /\ (n + 42 * Byte3) % Byte3 = n
    BY <1>3, Byte3Type, SMT
  <1>5. (n + 52 * Byte3) \div Byte3 = 52 /\ (n + 52 * Byte3) % Byte3 = n
    BY <1>3, Byte3Type, SMT
  <1>6. n + code * Byte3 >= code * Byte3
    BY <1>3, Byte3Type, SMT
  <1> QED BY <1>2, <1>4, <1>5, <1>6, SMT DEF highByte

\* One that does not fit gives -1.
LEMMA TaggedMisfit ==
    ASSUME NEW n \in Identifier, NEW code, ~Numbered(n)
    PROVE  Tagged(n, code) = -1
  BY HighByte, SMT DEF Tagged

\* Types::toModuleIdentifier and toServiceIdentifier keep modules and services
\* apart, for every 32-bit number.
THEOREM KindsStayApart == ASSUME NEW n \in Identifier PROVE KindsApart(n)
  <1> USE DEF isModuleIdentifier, isServiceIdentifier, canBeModuleIdentifier,
              canBeServiceIdentifier, toModuleIdentifier, toServiceIdentifier,
              ModuleIdentifierCode, ServiceIdentifierCode
  <1>1. ~isModuleIdentifier(-1) /\ ~isServiceIdentifier(-1)
    BY Byte3Type, SMT DEF highByte
  <1>2. ASSUME Numbered(n), NEW code \in {42, 52}
        PROVE  highByte(Tagged(n, code)) = code /\ Tagged(n, code) % Byte3 = n
    BY <1>2, TaggedNumber, SMT
  <1>3. Numbered(n) => toModuleIdentifier(n) >= getMinimalModuleIdentifier
    BY TaggedNumber, SMT DEF getMinimalModuleIdentifier
  <1>4. ~Numbered(n) => toModuleIdentifier(n) = -1 /\ toServiceIdentifier(n) = -1
    BY TaggedMisfit, SMT
  <1> QED BY <1>1, <1>2, <1>3, <1>4, SMT DEF KindsApart

\* Two numbers never share an identifier, and a module never shares one with a
\* service.
THEOREM NumbersStayApart ==
    ASSUME NEW n \in Identifier, NEW p \in Identifier, Numbered(n), Numbered(p)
    PROVE  /\ n # p => /\ toModuleIdentifier(n) # toModuleIdentifier(p)
                       /\ toServiceIdentifier(n) # toServiceIdentifier(p)
           /\ toModuleIdentifier(n) # toServiceIdentifier(p)
  BY KindsStayApart, SMT DEF KindsApart

\* The model-checked instance follows: the edges are 32-bit numbers.
THEOREM IdentifiersStayApart == IdentifiersApart
  <1>1. Edge \subseteq Identifier
    <2>1. ASSUME NEW e \in {0, Byte3, -Byte3, 42 * Byte3, 52 * Byte3, 127 * Byte3},
                 NEW d \in -1 .. 1
          PROVE  e + d \in Identifier
      BY <2>1, Byte3Type, SMT DEF Identifier
    <2>2. (-128) * Byte3 \in Identifier /\ 127 * Byte3 + (Byte3 - 1) \in Identifier
      BY Byte3Type, SMT DEF Identifier
    <2> QED BY <2>1, <2>2, SMT DEF Edge
  <1> QED BY <1>1, KindsStayApart, SMT DEF IdentifiersApart
============================================================================
