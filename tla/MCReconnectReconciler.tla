------------------------ MODULE MCReconnectReconciler ------------------------
EXTENDS ReconnectReconciler, TLC

CONSTANTS A, B, o1, o2, o3

MCSymbolOf == o1 :> A @@ o2 :> A @@ o3 :> B
MCSideOf == o1 :> "BUY" @@ o2 :> "SELL" @@ o3 :> "BUY"
MCQtyOf == o1 :> 2 @@ o2 :> 1 @@ o3 :> 1
=============================================================================
