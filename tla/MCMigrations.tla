----------------------------- MODULE MCMigrations -----------------------------
EXTENDS Migrations
================================================================================
