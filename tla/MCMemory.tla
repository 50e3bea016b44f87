------------------------------ MODULE MCMemory ------------------------------
(* The four kinds of memory the library keeps things in.  They share nothing, so
   a behaviour is one of each of them alone. *)
EXTENDS NbArray, NbStack, NbStrbuf, NbMempool

CONSTANTS f1, f2

Init == ArrayInit /\ StackInit /\ StrbufInit /\ MempoolInit
Next ==
  \/ /\ StackInit /\ StrbufInit /\ MempoolInit
     /\ ArrayNext /\ UNCHANGED <<stackVars, strbufVars, poolVars>>
  \/ /\ ArrayInit /\ StrbufInit /\ MempoolInit
     /\ StackNext /\ UNCHANGED <<arrayVars, strbufVars, poolVars>>
  \/ /\ ArrayInit /\ StackInit /\ MempoolInit
     /\ StrbufNext /\ UNCHANGED <<arrayVars, stackVars, poolVars>>
  \/ /\ ArrayInit /\ StackInit /\ StrbufInit
     /\ MempoolNext /\ UNCHANGED <<arrayVars, stackVars, strbufVars>>

Spec == Init /\ [][Next]_<<arrayVars, stackVars, strbufVars, poolVars>>
=============================================================================
