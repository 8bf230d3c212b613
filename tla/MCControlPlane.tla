--------------------------- MODULE MCControlPlane ---------------------------
EXTENDS ControlPlane

TwoKinds == <<"ingress", "secret">>
TwoBodies == [k \in {"ingress", "secret"} |->
                IF k = "ingress" THEN {"v1", "v2", "badregex"} ELSE {"c1", "c2"}]
=============================================================================
