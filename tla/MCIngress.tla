------------------------------ MODULE MCIngress ------------------------------
EXTENDS Ingress
=============================================================================
