--------------------------- MODULE MCConfigCompat ---------------------------
EXTENDS ConfigCompat

\* A Smilo chain config: fixed forks at genesis or never, the fields under
\* test varied by MCConfigs.
Base ==
  [ChainID |-> 5, HomesteadBlock |-> 0, DAOForkBlock |-> Nil,
   DAOForkSupport |-> FALSE, EIP150Block |-> 0, EIP155Block |-> 0,
   EIP158Block |-> 0, ByzantiumBlock |-> 0, ConstantinopleBlock |-> Nil,
   PetersburgBlock |-> Nil, IstanbulBlock |-> Nil, EWASMBlock |-> Nil,
   Istanbul |-> [Ceil2Nby3Block |-> Nil], QIP714Block |-> Nil,
   MaxCodeSizeChangeBlock |-> Nil]

\* Fork blocks rescheduled among heights 1..3, the DAO side flipped, and the
\* Ceil(2N/3) switch scheduled or not.
MCConfigs ==
  {[Base EXCEPT !.DAOForkBlock = dao, !.DAOForkSupport = sup,
                !.EIP155Block = e155, !.EIP158Block = e158,
                !.Istanbul = [Ceil2Nby3Block |-> ceil]] :
     dao \in {2, 3}, sup \in BOOLEAN, e155 \in {1, 2}, e158 \in {1, 3},
     ceil \in {2, Nil}}

MCGenesis == CHOOSE c \in MCConfigs :
  c.DAOForkBlock = 2 /\ c.DAOForkSupport /\ c.EIP155Block = 1
  /\ c.EIP158Block = 3 /\ c.Istanbul.Ceil2Nby3Block = 2

=============================================================================
